---------------------------- MODULE Spec2Model ----------------------------
(***************************************************************************)
(* A model of data-router: declarative routes (path, method, SQL text,     *)
(* policies) served as read-only HTTP endpoints.                           *)
(*                                                                         *)
(* Strings are sequences of one-character strings, so that trimming,       *)
(* case folding, splitting on "/", regular-expression scans and the        *)
(* replacement of $n placeholders are computed character by character as   *)
(* the TypeScript does.                                                    *)
(***************************************************************************)
EXTENDS Integers, Sequences, FiniteSets, Bags, TLC

VARIABLES
    vQuery,     \* isValidSqlQuery: the statement under test
    vDone,      \* isValidSqlQuery: it has returned
    vResult,    \* isValidSqlQuery: the boolean returned
    pQuery,     \* parseConfig: the route's statement
    pParams,    \* parseConfig: the route's declared parameter names
    pResult,    \* parseConfig: "idle", "ok", or the error thrown
    rRoutes,    \* route matching: the configured routes, in declaration order
    rMethod,    \* route matching: the request's method
    rPath,      \* route matching: the request's path
    rStage,     \* route matching: "idle", "matched" or "extracted"
    rMatch,     \* route matching: index of the route returned, 0 for null
    rParams,    \* route matching: the mapping extractPathParams returned
    store,      \* InMemoryCache.store: key -> [value, expiresAt]
    now,        \* the clock InMemoryCache reads, in milliseconds
    cOp,        \* cache: the operation just performed
    cRet,       \* cache: what the last get returned, <<>> for null, else <<value>>
    cWritten,   \* cache: per key, the last set not deleted or cleared since
    xRoute,     \* executor: index of the route executed
    xReqs,      \* executor: two requests to that route, <<path, search>> each
    xOut,       \* executor: per request, <<>> or <<what buildAndExecuteQuery did>>
    inflight,   \* handler: the bag of requests awaiting the database
    last,       \* handler: <<>> or <<the response the last step returned, with its history>>
    gPolicy,    \* pagination: the route's pagination policy
    gSearch,    \* pagination: the request's query string
    gParams,    \* pagination: <<>> or <<what getPaginationParams returned>>
    gTotal,     \* pagination: the total the count query reported
    gResult,    \* pagination: <<>> or <<what createPaginatedResponse returned>>
    qRoute,     \* statements: the route executed
    qPaged,     \* statements: <<>> or <<the pagination parameters, buildAndExecuteQuery with them>>
    qPlain,     \* statements: <<>> or <<buildAndExecuteQuery without them>>
    qCount,     \* statements: <<>> or <<executeCountQuery up to its submission>>
    sRow,       \* shaping: the database row, its fields in order (the data, for the wrapper)
    sPolicy,    \* shaping: the route's response policy (its wrapper, for the wrapper)
    sOut,       \* shaping: <<>> or <<the row transformData returned>>
    wOut,       \* shaping: <<>> or <<the error passed, the object createApiResponse returned>>
    kRaw,       \* startup: the calls of initialize so far, each with what it did
    kConfig,    \* startup: ConfigParser.config, <<>> for null
    kHandler,   \* startup: DbRouter.requestHandler's configuration, <<>> for null
    kStage,     \* startup: where the process is
    kServed     \* startup: the configurations requests were handled under

vars == <<vQuery, vDone, vResult, pQuery, pParams, pResult,
          rRoutes, rMethod, rPath, rStage, rMatch, rParams,
          store, now, cOp, cRet, cWritten, xRoute, xReqs, xOut,
          inflight, last,
          gPolicy, gSearch, gParams, gTotal, gResult,
          qRoute, qPaged, qPlain, qCount,
          sRow, sPolicy, sOut, wOut,
          kRaw, kConfig, kHandler, kStage, kServed>>

validatorVars == <<vQuery, vDone, vResult>>
parserVars == <<pQuery, pParams, pResult>>
routeVars == <<rRoutes, rMethod, rPath, rStage, rMatch, rParams>>
cacheVars == <<store, now, cOp, cRet, cWritten>>
execVars == <<xRoute, xReqs, xOut>>
handlerVars == <<inflight, last>>
pageVars == <<gPolicy, gSearch, gParams, gTotal, gResult>>
stmtVars == <<qRoute, qPaged, qPlain, qCount>>
shapeVars == <<sRow, sPolicy, sOut, wOut>>
startVars == <<kRaw, kConfig, kHandler, kStage, kServed>>
utilVars == <<pageVars, stmtVars, shapeVars, startVars>>

-----------------------------------------------------------------------------
(* JavaScript string primitives, on sequences of characters.               *)

UpperLetters == <<"A", "B", "C", "D", "E", "F", "G", "H", "I", "J", "K", "L", "M", "N", "O", "P", "Q", "R", "S", "T", "U", "V", "W", "X", "Y", "Z">>
LowerLetters == <<"a", "b", "c", "d", "e", "f", "g", "h", "i", "j", "k", "l", "m", "n", "o", "p", "q", "r", "s", "t", "u", "v", "w", "x", "y", "z">>
Digits == <<"0", "1", "2", "3", "4", "5", "6", "7", "8", "9">>

Range(s) == {s[i] : i \in 1..Len(s)}

\* the whitespace String.prototype.trim removes (the part of it the inputs use)
WhiteSpace == {" ", "\t", "\n"}

\* \w of a JavaScript regular expression
WordChars == Range(UpperLetters) \cup Range(LowerLetters) \cup Range(Digits) \cup {"_"}

\* [a-z0-9_]
LowerWordChars == Range(LowerLetters) \cup Range(Digits) \cup {"_"}

ToLowerChar(c) ==
    IF \E i \in 1..Len(UpperLetters) : UpperLetters[i] = c
    THEN LowerLetters[CHOOSE i \in 1..Len(UpperLetters) : UpperLetters[i] = c]
    ELSE c

ToLowerCase(s) == [i \in 1..Len(s) |-> ToLowerChar(s[i])]

Trim(s) ==
    LET keep == {i \in 1..Len(s) : s[i] \notin WhiteSpace}
    IN  IF keep = {} THEN <<>>
        ELSE SubSeq(s, CHOOSE i \in keep : \A j \in keep : i <= j,
                       CHOOSE i \in keep : \A j \in keep : i >= j)

StartsWith(s, p) == Len(s) >= Len(p) /\ SubSeq(s, 1, Len(p)) = p

\* s has p at index i (1-based)
OccursAt(s, p, i) == i >= 1 /\ i + Len(p) - 1 <= Len(s) /\ SubSeq(s, i, i + Len(p) - 1) = p

Includes(s, p) == \E i \in 1..(Len(s) + 1) : OccursAt(s, p, i)

\* String.prototype.indexOf, 1-based; 0 when p does not occur
IndexOf(s, p) ==
    IF Includes(s, p)
    THEN CHOOSE i \in 1..(Len(s) + 1) :
            OccursAt(s, p, i) /\ \A j \in 1..(i - 1) : ~OccursAt(s, p, j)
    ELSE 0

IsWordAt(s, i) == i \in 1..Len(s) /\ s[i] \in WordChars

\* \b holds between s[i-1] and s[i]
WordBoundary(s, i) == IsWordAt(s, i - 1) # IsWordAt(s, i)

RECURSIVE Concat(_)
Concat(ss) == IF ss = <<>> THEN <<>> ELSE Head(ss) \o Concat(Tail(ss))

-----------------------------------------------------------------------------
(* config/validator.ts: isValidSqlQuery                                    *)

allowedOperations == {<<"s", "e", "l", "e", "c", "t">>, <<"w", "i", "t", "h">>}

forbiddenWords == {
    <<"i", "n", "s", "e", "r", "t">>,
    <<"u", "p", "d", "a", "t", "e">>,
    <<"d", "e", "l", "e", "t", "e">>,
    <<"d", "r", "o", "p">>,
    <<"c", "r", "e", "a", "t", "e">>,
    <<"a", "l", "t", "e", "r">>,
    <<"t", "r", "u", "n", "c", "a", "t", "e">>,
    <<"g", "r", "a", "n", "t">>,
    <<"r", "e", "v", "o", "k", "e">>,
    <<"e", "x", "e", "c">>,
    <<"e", "x", "e", "c", "u", "t", "e">> }

forbiddenPrefixes == {<<"x", "p", "_">>, <<"s", "p", "_">>}

\* /kw/ without the word boundaries: a substring match
TestWordAnywhere(s, kw) == Includes(s, kw)

\* /\bkw\b/.test(s)
TestWord(s, kw) ==
    \E i \in 1..Len(s) :
        OccursAt(s, kw, i) /\ WordBoundary(s, i) /\ WordBoundary(s, i + Len(kw))

\* /\bpre[a-z0-9_]+/.test(s)
TestPrefix(s, pre) ==
    \E i \in 1..Len(s) :
        /\ OccursAt(s, pre, i)
        /\ WordBoundary(s, i)
        /\ i + Len(pre) <= Len(s)
        /\ s[i + Len(pre)] \in LowerWordChars

isValidSqlQuery(query) ==
    LET normalizedQuery == ToLowerCase(Trim(query))
        hasValidStart == \E op \in allowedOperations : StartsWith(normalizedQuery, op)
        hasForbiddenKeywords ==
            \/ \E kw \in forbiddenWords : TestWord(normalizedQuery, kw)
            \/ \E pre \in forbiddenPrefixes : TestPrefix(normalizedQuery, pre)
    IN  hasValidStart /\ ~hasForbiddenKeywords

-----------------------------------------------------------------------------
(* Statements offered to isValidSqlQuery: up to MaxFrags fragments.        *)

MaxFrags == 3

Fragments == {
    <<"S", "E", "L", "E", "C", "T">>,
    <<"w", "i", "t", "h">>,
    <<" ">>,
    <<"D", "R", "O", "P">>,
    <<"c", "r", "e", "a", "t", "e", "d", "_", "a", "t">>,
    <<"x", "p", "_">>,
    <<"s", "p", "_">>,
    <<"c", "m", "d">>,
    <<"'">>,
    <<"e", "x", "e", "c">>,
    <<"u", "t", "e">> }

FragSeqs == UNION {[1..n -> Fragments] : n \in 0..MaxFrags}

ValidatorIdle == vQuery = <<>> /\ vDone = FALSE /\ vResult = FALSE

ValidatorInit ==
    /\ vQuery \in {Concat(fs) : fs \in FragSeqs}
    /\ vDone = FALSE
    /\ vResult = FALSE

Validate ==
    /\ ~vDone
    /\ vDone' = TRUE
    /\ vResult' = isValidSqlQuery(vQuery)
    /\ UNCHANGED <<vQuery, parserVars, routeVars, cacheVars, execVars, handlerVars, utilVars>>

-----------------------------------------------------------------------------
(* What "a word" means in the statement of the deny-list: a maximal run    *)
(* of word characters.                                                     *)

Words(s) ==
    {SubSeq(s, i, j) : <<i, j>> \in
        {p \in (1..Len(s)) \X (1..Len(s)) :
            /\ p[1] <= p[2]
            /\ \A k \in p[1]..p[2] : IsWordAt(s, k)
            /\ ~IsWordAt(s, p[1] - 1)
            /\ ~IsWordAt(s, p[2] + 1)}}

StartsAllowed(s) == \E op \in allowedOperations : StartsWith(ToLowerCase(Trim(s)), op)

\* no word of s is a deny-listed keyword
NoForbiddenWord(s) == \A w \in Words(ToLowerCase(Trim(s))) : w \notin forbiddenWords

\* no word of s begins with xp_ or sp_
NoProcWord(s) ==
    \A w \in Words(ToLowerCase(Trim(s))) : \A pre \in forbiddenPrefixes : ~StartsWith(w, pre)

\* no word of s is xp_ or sp_ followed by at least one more character
NoLongProcWord(s) ==
    \A w \in Words(ToLowerCase(Trim(s))) :
        \A pre \in forbiddenPrefixes : ~(StartsWith(w, pre) /\ Len(w) > Len(pre))

\* C2, as stated: isValidSqlQuery(q) is true exactly when q, trimmed and
\* lower-cased, starts with select or with, contains no deny-listed keyword as
\* a whole word and no word beginning with xp_ or sp_.
C2_AsStated ==
    vDone =>
        (vResult = (StartsAllowed(vQuery) /\ NoForbiddenWord(vQuery) /\ NoProcWord(vQuery)))

\* C2, amended: isValidSqlQuery(q) is true exactly when q, trimmed and
\* lower-cased, starts with select or with, contains no deny-listed keyword as
\* a whole word and no word that is xp_ or sp_ followed by at least one more
\* word character; a keyword inside a longer word (created_at) or a bare xp_
\* does not cause rejection, a keyword inside a quoted literal does.
C2_ValidExactly ==
    vDone =>
        (vResult = (StartsAllowed(vQuery) /\ NoForbiddenWord(vQuery) /\ NoLongProcWord(vQuery)))

\* a statement with created_at in it was accepted
C2_Witness ==
    /\ vDone /\ vResult
    /\ Includes(vQuery, <<"c", "r", "e", "a", "t", "e", "d", "_", "a", "t">>)

-----------------------------------------------------------------------------
(* config/parser.ts: ConfigParser.parseConfig, for one route               *)

IsDigit(c) == c \in Range(Digits)

DigitValue(c) == (CHOOSE i \in 1..Len(Digits) : Digits[i] = c) - 1

\* parseInt(ds, 10) of a non-empty run of digits
RECURSIVE ParseDigits(_)
ParseDigits(ds) ==
    IF ds = <<>> THEN 0
    ELSE 10 * ParseDigits(SubSeq(ds, 1, Len(ds) - 1)) + DigitValue(ds[Len(ds)])

\* the index of the last digit of the run of digits that starts at i
RECURSIVE DigitRunEnd(_, _)
DigitRunEnd(s, i) ==
    IF i + 1 <= Len(s) /\ IsDigit(s[i + 1]) THEN DigitRunEnd(s, i + 1) ELSE i

\* [...query.matchAll(/\$(\d+)/g)].map(m => parseInt(m[1], 10)), scanning from i
RECURSIVE PlaceholderNumbers(_, _)
PlaceholderNumbers(query, i) ==
    IF i > Len(query) THEN <<>>
    ELSE IF query[i] = "$" /\ i + 1 <= Len(query) /\ IsDigit(query[i + 1])
         THEN LET e == DigitRunEnd(query, i + 1)
              IN  <<ParseDigits(SubSeq(query, i + 1, e))>> \o PlaceholderNumbers(query, e + 1)
         ELSE PlaceholderNumbers(query, i + 1)

SeqMax(ns) == CHOOSE m \in Range(ns) : \A n \in Range(ns) : m >= n

\* validateParameterBindings without the Set-size comparison
validateParameterBindingsNoDuplicateCheck(query, params) ==
    LET queryParamNumbers == PlaceholderNumbers(query, 1)
    IN  IF Len(queryParamNumbers) = 0 /\ Len(params) = 0 THEN "ok"
        ELSE IF Len(queryParamNumbers) = 0 /\ Len(params) > 0 THEN "paramsWithoutPlaceholders"
        ELSE IF Len(queryParamNumbers) > 0 /\ Len(params) = 0 THEN "placeholdersWithoutParams"
        ELSE LET maxParam == SeqMax(queryParamNumbers)
             IN  IF \E expectedParam \in 1..maxParam : expectedParam \notin Range(queryParamNumbers)
                 THEN "placeholderMissing"
                 ELSE IF Len(params) # maxParam THEN "countMismatch"
                 ELSE "ok"

\* the error validateParameterBindings throws, or "ok" when it returns
validateParameterBindings(query, params) ==
    LET queryParamNumbers == PlaceholderNumbers(query, 1)
    IN  IF Len(queryParamNumbers) = 0 /\ Len(params) = 0 THEN "ok"
        ELSE IF Len(queryParamNumbers) = 0 /\ Len(params) > 0 THEN "paramsWithoutPlaceholders"
        ELSE IF Len(queryParamNumbers) > 0 /\ Len(params) = 0 THEN "placeholdersWithoutParams"
        ELSE LET maxParam == SeqMax(queryParamNumbers)
             IN  IF \E expectedParam \in 1..maxParam : expectedParam \notin Range(queryParamNumbers)
                 THEN "placeholderMissing"
                 ELSE IF Len(params) # maxParam THEN "countMismatch"
                 ELSE IF Cardinality(Range(params)) # Len(params) THEN "duplicateParams"
                 ELSE "ok"

\* the loop body of parseConfig for one route: the error thrown, or "ok"
parseRoute(query, params) ==
    IF ~isValidSqlQuery(query) THEN "unsafeQuery"
    ELSE validateParameterBindings(query, params)

MaxTail == 4
MaxParams == 2

TailChars == {"$", "0", "1", "2"}
ParamNames == {<<"a">>, <<"b">>}
QueryHeads == {<<"S", "E", "L", "E", "C", "T", " ">>, <<"D", "R", "O", "P", " ">>}

ParserIdle == pQuery = <<>> /\ pParams = <<>> /\ pResult = "idle"

ParserInit ==
    /\ pQuery \in {h \o t : h \in QueryHeads, t \in UNION {[1..n -> TailChars] : n \in 0..MaxTail}}
    /\ pParams \in UNION {[1..n -> ParamNames] : n \in 0..MaxParams}
    /\ pResult = "idle"

ParseConfig ==
    /\ pResult = "idle"
    /\ pResult' = parseRoute(pQuery, pParams)
    /\ UNCHANGED <<pQuery, pParams, validatorVars, routeVars, cacheVars, execVars, handlerVars, utilVars>>

\* the placeholder indices of a statement: n occurs when a "$" is followed by
\* a maximal run of digits that reads n
Placeholders(q) ==
    {ParseDigits(SubSeq(q, p[1] + 1, p[2])) : p \in
        {p \in (1..Len(q)) \X (1..Len(q)) :
            /\ p[1] < p[2]
            /\ q[p[1]] = "$"
            /\ \A k \in (p[1] + 1)..p[2] : IsDigit(q[k])
            /\ ~(p[2] + 1 <= Len(q) /\ IsDigit(q[p[2] + 1]))}}

SetMax(S) == CHOOSE m \in S : \A n \in S : m >= n

Distinct(params) == \A i, j \in 1..Len(params) : i # j => params[i] # params[j]

\* case (b) of the claim
BoundExactly(q, params) ==
    /\ Placeholders(q) # {}
    /\ \A k \in 1..SetMax(Placeholders(q)) : k \in Placeholders(q)
    /\ Len(params) = SetMax(Placeholders(q))
    /\ Distinct(params)

\* C3, as stated: a route with a safe statement is accepted iff (a) it has no
\* placeholder and no declared name, or (b) every integer in
\* [1, maxPlaceholder] occurs, the number of names is maxPlaceholder and the
\* names are pairwise distinct; otherwise parseConfig throws.
C3_AsStated ==
    (pResult # "idle" /\ isValidSqlQuery(pQuery)) =>
        ((pResult = "ok") <=>
            \/ (Placeholders(pQuery) = {} /\ pParams = <<>>)
            \/ BoundExactly(pQuery, pParams))

\* C3, amended: a route with a safe statement is accepted iff (a) it has no
\* placeholder and no declared name, or (b) at least one name is declared,
\* every integer in [1, maxPlaceholder] occurs, the number of names is
\* maxPlaceholder and the names are pairwise distinct; otherwise parseConfig
\* throws (a statement whose only placeholder is $0 is rejected).
C3_AcceptedExactly ==
    (pResult # "idle" /\ isValidSqlQuery(pQuery)) =>
        ((pResult = "ok") <=>
            \/ (Placeholders(pQuery) = {} /\ pParams = <<>>)
            \/ (pParams # <<>> /\ BoundExactly(pQuery, pParams)))

\* a statement with $1 and $2 was accepted with two distinct names
C3_Witness ==
    /\ pResult = "ok"
    /\ Placeholders(pQuery) = {1, 2}
    /\ Len(pParams) = 2

-----------------------------------------------------------------------------
(* api/handlers.ts: findMatchingRoute, matchPath, extractPathParams        *)

\* path.split("/").filter(Boolean), reading from i with cur the segment so far
RECURSIVE SplitFrom(_, _, _)
SplitFrom(path, i, cur) ==
    IF i > Len(path) THEN (IF cur = <<>> THEN <<>> ELSE <<cur>>)
    ELSE IF path[i] = "/"
         THEN (IF cur = <<>> THEN <<>> ELSE <<cur>>) \o SplitFrom(path, i + 1, <<>>)
         ELSE SplitFrom(path, i + 1, Append(cur, path[i]))

SplitPath(path) == SplitFrom(path, 1, <<>>)

IsParamPart(part) == StartsWith(part, <<":">>)

\* matchPath without the comparison of the two lengths
matchPathNoLengthCheck(routePath, requestPath) ==
    LET routeParts == SplitPath(routePath)
        requestParts == SplitPath(requestPath)
    IN  \A i \in 1..Len(routeParts) :
            \/ IsParamPart(routeParts[i])
            \/ (i <= Len(requestParts) /\ routeParts[i] = requestParts[i])

matchPath(routePath, requestPath) ==
    LET routeParts == SplitPath(routePath)
        requestParts == SplitPath(requestPath)
    IN  IF Len(routeParts) # Len(requestParts) THEN FALSE
        ELSE \A i \in 1..Len(routeParts) :
                IsParamPart(routeParts[i]) \/ routeParts[i] = requestParts[i]

\* the for loop of findMatchingRoute from route i on: the index of the route
\* returned, 0 for null
RECURSIVE FindFrom(_, _, _, _)
FindFrom(routes, path, method, i) ==
    IF i > Len(routes) THEN 0
    ELSE IF routes[i].method = method /\ matchPath(routes[i].path, path) THEN i
    ELSE FindFrom(routes, path, method, i + 1)

findMatchingRoute(routes, path, method) == FindFrom(routes, path, method, 1)

\* what reading parts[i] gives: the part, or undefined past the end
Undefined == <<"undefined">>
PartAt(parts, i) == IF i \in 1..Len(parts) THEN parts[i] ELSE Undefined

\* the for loop of extractPathParams from part i on
RECURSIVE ExtractFrom(_, _, _, _)
ExtractFrom(routeParts, requestParts, i, params) ==
    IF i > Len(routeParts) THEN params
    ELSE IF IsParamPart(routeParts[i])
         THEN LET paramName == SubSeq(routeParts[i], 2, Len(routeParts[i]))
              IN  ExtractFrom(routeParts, requestParts, i + 1,
                      [n \in DOMAIN params \cup {paramName} |->
                          IF n = paramName THEN PartAt(requestParts, i) ELSE params[n]])
         ELSE ExtractFrom(routeParts, requestParts, i + 1, params)

\* extractPathParams keeping the first value bound to a name
extractPathParamsFirstWins(routePath, requestPath) ==
    LET routeParts == SplitPath(routePath)
        requestParts == SplitPath(requestPath)
        names == {SubSeq(routeParts[i], 2, Len(routeParts[i])) :
                    i \in {j \in 1..Len(routeParts) : IsParamPart(routeParts[j])}}
    IN  [n \in names |->
            PartAt(requestParts,
                   CHOOSE i \in 1..Len(routeParts) :
                       /\ routeParts[i] = <<":">> \o n
                       /\ \A j \in 1..(i - 1) : routeParts[j] # <<":">> \o n)]

extractPathParams(routePath, requestPath) ==
    ExtractFrom(SplitPath(routePath), SplitPath(requestPath), 1, <<>>)

MaxRoutes == 2

RoutePaths == {
    <<"/", "u", "s", "e", "r", "s">>,
    <<"/", "u", "s", "e", "r", "s", "/", ":", "i", "d">>,
    <<"/", "u", "s", "e", "r", "s", "/", ":", "i", "d", "/", "p", "o", "s", "t", "s", "/", ":", "p", "o", "s", "t", "I", "d">>,
    <<"/", ":", "a", "/", ":", "a">>,
    <<"/", "u", "s", "e", "r", "s", "/", "m", "e", "/">> }

RequestPaths == {
    <<"/", "u", "s", "e", "r", "s">>,
    <<"/", "u", "s", "e", "r", "s", "/">>,
    <<"/", "u", "s", "e", "r", "s", "/", "4", "2">>,
    <<"/", "u", "s", "e", "r", "s", "/", "m", "e">>,
    <<"/", "u", "s", "e", "r", "s", "/", "4", "2", "/", "p", "o", "s", "t", "s", "/", "7">>,
    <<"/", "/", "x", "/", "y">>,
    <<"/">> }

RequestMethods == {<<"G", "E", "T">>, <<"P", "O", "S", "T">>}

\* route tables the schema accepts: (method, path) pairs pairwise distinct
RouteTables ==
    {rs \in UNION {[1..n -> [method : {<<"G", "E", "T">>}, path : RoutePaths]] : n \in 1..MaxRoutes} :
        \A i, j \in 1..Len(rs) : i # j => rs[i] # rs[j]}

RouteIdle ==
    /\ rRoutes = <<>> /\ rMethod = <<>> /\ rPath = <<>>
    /\ rStage = "idle" /\ rMatch = 0 /\ rParams = <<>>

RouteInit ==
    /\ rRoutes \in RouteTables
    /\ rMethod \in RequestMethods
    /\ rPath \in RequestPaths
    /\ rStage = "idle" /\ rMatch = 0 /\ rParams = <<>>

FindRoute ==
    /\ rStage = "idle"
    /\ rMatch' = findMatchingRoute(rRoutes, rPath, rMethod)
    /\ rStage' = "matched"
    /\ UNCHANGED <<rRoutes, rMethod, rPath, rParams, validatorVars, parserVars, cacheVars, execVars, handlerVars, utilVars>>

ExtractParams ==
    /\ rStage = "matched"
    /\ rMatch # 0
    /\ rParams' = extractPathParams(rRoutes[rMatch].path, rPath)
    /\ rStage' = "extracted"
    /\ UNCHANGED <<rRoutes, rMethod, rPath, rMatch, validatorVars, parserVars, cacheVars, execVars, handlerVars, utilVars>>

\* the non-empty "/"-separated segments of a path, in order: its maximal
\* runs of characters other than "/"
SegmentRuns(path) ==
    {p \in (1..Len(path)) \X (1..Len(path)) :
        /\ p[1] <= p[2]
        /\ \A k \in p[1]..p[2] : path[k] # "/"
        /\ (p[1] = 1 \/ path[p[1] - 1] = "/")
        /\ (p[2] = Len(path) \/ path[p[2] + 1] = "/")}

SegmentCount(path) == Cardinality(SegmentRuns(path))

\* the k-th segment
Segment(path, k) ==
    LET p == CHOOSE p \in SegmentRuns(path) :
                 Cardinality({q \in SegmentRuns(path) : q[1] < p[1]}) = k - 1
    IN  SubSeq(path, p[1], p[2])

RouteMatches(route, method, path) ==
    /\ route.method = method
    /\ SegmentCount(route.path) = SegmentCount(path)
    /\ \A k \in 1..SegmentCount(route.path) :
            \/ Segment(route.path, k)[1] = ":"
            \/ Segment(route.path, k) = Segment(path, k)

\* C4: the matched route is the first route in declaration order whose
\* method equals the request's, whose path has as many non-empty segments as
\* the request path and whose every segment begins with ":" or equals the
\* request's segment at that position; none when no route does.
C4_FirstMatchWins ==
    rStage # "idle" =>
        IF \E i \in 1..Len(rRoutes) : RouteMatches(rRoutes[i], rMethod, rPath)
        THEN /\ rMatch \in 1..Len(rRoutes)
             /\ RouteMatches(rRoutes[rMatch], rMethod, rPath)
             /\ \A j \in 1..(rMatch - 1) : ~RouteMatches(rRoutes[j], rMethod, rPath)
        ELSE rMatch = 0

\* the second of two matching routes was passed over for the first
C4_Witness ==
    /\ rStage # "idle"
    /\ rMatch = 1
    /\ Len(rRoutes) = 2
    /\ RouteMatches(rRoutes[2], rMethod, rPath)
    /\ \E k \in 1..SegmentCount(rRoutes[1].path) : Segment(rRoutes[1].path, k)[1] = ":"

ParamPositions(routePath) ==
    {k \in 1..SegmentCount(routePath) : Segment(routePath, k)[1] = ":"}

ParamNameAt(routePath, k) == Tail(Segment(routePath, k))

\* C5, as stated: for a route and request path that match, extractParams
\* returns a mapping whose keys are exactly the names of the route's :name
\* segments and whose value for each name is the request segment at the same
\* position, a non-empty string; a path with another segment count never
\* matches.
C5_AsStated ==
    /\ rStage = "extracted" =>
        /\ DOMAIN rParams = {ParamNameAt(rRoutes[rMatch].path, k) :
                                k \in ParamPositions(rRoutes[rMatch].path)}
        /\ \A k \in ParamPositions(rRoutes[rMatch].path) :
                /\ rParams[ParamNameAt(rRoutes[rMatch].path, k)] = Segment(rPath, k)
                /\ Segment(rPath, k) # <<>>
    /\ (rStage # "idle" /\ rMatch # 0) =>
            SegmentCount(rRoutes[rMatch].path) = SegmentCount(rPath)

\* C5, amended: for a route and request path that match, extractParams
\* returns a mapping whose keys are exactly the names of the route's :name
\* segments and whose value for each name is the request segment at the
\* position of the last segment bearing that name, a non-empty string; a path
\* with another segment count never matches.
C5_RoundTrip ==
    /\ rStage = "extracted" =>
        /\ DOMAIN rParams = {ParamNameAt(rRoutes[rMatch].path, k) :
                                k \in ParamPositions(rRoutes[rMatch].path)}
        /\ \A k \in ParamPositions(rRoutes[rMatch].path) :
                (\A j \in ParamPositions(rRoutes[rMatch].path) :
                    (j > k => ParamNameAt(rRoutes[rMatch].path, j)
                                # ParamNameAt(rRoutes[rMatch].path, k)))
                => /\ rParams[ParamNameAt(rRoutes[rMatch].path, k)] = Segment(rPath, k)
                   /\ Segment(rPath, k) # <<>>
    /\ (rStage # "idle" /\ rMatch # 0) =>
            SegmentCount(rRoutes[rMatch].path) = SegmentCount(rPath)

\* /users/:id/posts/:postId against /users/42/posts/7 gave {id: 42, postId: 7}
C5_Witness ==
    /\ rStage = "extracted"
    /\ rPath = <<"/", "u", "s", "e", "r", "s", "/", "4", "2", "/", "p", "o", "s", "t", "s", "/", "7">>
    /\ DOMAIN rParams = {<<"i", "d">>, <<"p", "o", "s", "t", "I", "d">>}
    /\ rParams[<<"i", "d">>] = <<"4", "2">>
    /\ rParams[<<"p", "o", "s", "t", "I", "d">>] = <<"7">>

-----------------------------------------------------------------------------
(* utils/cache.ts: InMemoryCache                                           *)

MsPerSecond == 1000

\* entry.expiresAt < this.now(): an entry still served at its expiry instant
IsExpiredStrictly(entry, t) == entry.expiresAt < t

\* entry.expiresAt <= this.now()
IsExpired(entry, t) == entry.expiresAt <= t

RemoveKey(st, key) == [k \in DOMAIN st \ {key} |-> st[k]]

\* what get(key) returns at clock t: <<>> for null, else <<value>>
CacheGetResult(st, key, t) ==
    IF key \notin DOMAIN st THEN <<>>
    ELSE IF IsExpired(st[key], t) THEN <<>>
    ELSE <<st[key].value>>

\* the store get(key) leaves at clock t
CacheGetStore(st, key, t) ==
    IF key \in DOMAIN st /\ IsExpired(st[key], t) THEN RemoveKey(st, key) ELSE st

\* set keeping an entry that is already stored under the key
CacheSetKeepExisting(st, key, value, ttlSeconds, t) ==
    IF key \in DOMAIN st THEN st
    ELSE [k \in DOMAIN st \cup {key} |->
            IF k = key THEN [value |-> value, expiresAt |-> t + ttlSeconds * MsPerSecond]
            ELSE st[k]]

\* the store set(key, value, ttlSeconds) leaves at clock t
CacheSet(st, key, value, ttlSeconds, t) ==
    LET ttlMilliseconds == ttlSeconds * MsPerSecond
        expiresAt == t + ttlMilliseconds
    IN  [k \in DOMAIN st \cup {key} |->
            IF k = key THEN [value |-> value, expiresAt |-> expiresAt] ELSE st[k]]

CacheDelete(st, key) == RemoveKey(st, key)

CacheClear(st) == <<>>

MaxTicks == 4
TickMs == 500

CacheKeys == {"k1", "k2"}
CacheValues == {"v1", "v2"}
CacheTtls == {1, 2}

NoWrite == [k \in CacheKeys |-> <<>>]

CacheIdle ==
    /\ store = <<>> /\ now = 0
    /\ cOp = [op |-> "none"] /\ cRet = <<>> /\ cWritten = <<>>

CacheInit ==
    /\ store = <<>> /\ now = 0
    /\ cOp = [op |-> "none"] /\ cRet = <<>> /\ cWritten = NoWrite

Get(key) ==
    /\ cRet' = CacheGetResult(store, key, now)
    /\ store' = CacheGetStore(store, key, now)
    /\ cOp' = [op |-> "get", key |-> key]
    /\ UNCHANGED <<now, cWritten, validatorVars, parserVars, routeVars, execVars, handlerVars, utilVars>>

Set(key, value, ttl) ==
    /\ store' = CacheSet(store, key, value, ttl, now)
    /\ cOp' = [op |-> "set", key |-> key, value |-> value, ttl |-> ttl]
    /\ cWritten' = [cWritten EXCEPT ![key] = <<[value |-> value, at |-> now, ttl |-> ttl]>>]
    /\ UNCHANGED <<now, cRet, validatorVars, parserVars, routeVars, execVars, handlerVars, utilVars>>

Delete(key) ==
    /\ store' = CacheDelete(store, key)
    /\ cOp' = [op |-> "delete", key |-> key]
    /\ cWritten' = [cWritten EXCEPT ![key] = <<>>]
    /\ UNCHANGED <<now, cRet, validatorVars, parserVars, routeVars, execVars, handlerVars, utilVars>>

Clear ==
    /\ store' = CacheClear(store)
    /\ cOp' = [op |-> "clear"]
    /\ cWritten' = NoWrite
    /\ UNCHANGED <<now, cRet, validatorVars, parserVars, routeVars, execVars, handlerVars, utilVars>>

CacheTick ==
    /\ now + TickMs <= MaxTicks * TickMs
    /\ now' = now + TickMs
    /\ cOp' = [op |-> "tick"]
    /\ UNCHANGED <<store, cRet, cWritten, validatorVars, parserVars, routeVars, execVars, handlerVars, utilVars>>

CacheNext ==
    \/ \E k \in CacheKeys : Get(k)
    \/ \E k \in CacheKeys, v \in CacheValues, ttl \in CacheTtls : Set(k, v, ttl)
    \/ \E k \in CacheKeys : Delete(k)
    \/ Clear
    \/ CacheTick

\* C6: if the most recent write to k was set(k, v, ttl) at clock t, not
\* deleted or cleared since, get(k) at clock now returns v when
\* now < t + ttl*1000 and none when now >= t + ttl*1000, and then the entry is
\* gone from the store; a set replaces value and expiry unconditionally.
C6_Expiry ==
    /\ (cOp.op = "get" /\ cWritten[cOp.key] # <<>>) =>
          LET w == cWritten[cOp.key][1]
          IN  /\ (now < w.at + w.ttl * 1000) => cRet = <<w.value>>
              /\ (now >= w.at + w.ttl * 1000) =>
                     (cRet = <<>> /\ cOp.key \notin DOMAIN store)
    /\ (cOp.op = "get" /\ cWritten[cOp.key] = <<>>) => cRet = <<>>
    /\ cOp.op = "set" =>
          /\ cOp.key \in DOMAIN store
          /\ store[cOp.key] = [value |-> cOp.value, expiresAt |-> now + cOp.ttl * 1000]

\* a get at the very instant of expiry returned none and evicted an entry
\* that had been written over an earlier one
C6_Witness ==
    /\ cOp.op = "get"
    /\ cWritten[cOp.key] # <<>>
    /\ now = cWritten[cOp.key][1].at + cWritten[cOp.key][1].ttl * 1000
    /\ cWritten[cOp.key][1].at > 0
    /\ cRet = <<>>
    /\ cOp.key \notin DOMAIN store

-----------------------------------------------------------------------------
(* The configuration served. Optional policies are <<>> when absent and    *)
(* <<policy>> when present. No route has a response policy, so             *)
(* transformData returns the rows as they are.                             *)

NoPolicy == <<>>

Routes == <<
    [ path |-> <<"/", "u", "s", "e", "r", "s">>, method |-> <<"G", "E", "T">>,
      query |-> <<"S", "E", "L", "E", "C", "T", " ", "i", "d", " ", "F", "R", "O", "M", " ", "u", "s", "e", "r", "s", " ", "O", "R", "D", "E", "R", " ", "B", "Y", " ", "i", "d">>,
      params |-> <<>>,
      auth |-> NoPolicy,
      pagination |-> <<[enabled |-> TRUE, defaultLimit |-> 2, maxLimit |-> 3]>>,
      cache |-> <<[type |-> "memory", ttl |-> 1]>> ],
    [ path |-> <<"/", "u", "s", "e", "r", "s", "/", ":", "i", "d">>, method |-> <<"G", "E", "T">>,
      query |-> <<"S", "E", "L", "E", "C", "T", " ", "*", " ", "F", "R", "O", "M", " ", "u", "s", "e", "r", "s", " ", "W", "H", "E", "R", "E", " ", "i", "d", " ", "=", " ", "$", "1">>,
      params |-> <<<<"i", "d">>>>,
      auth |-> <<[required |-> TRUE]>>,
      pagination |-> NoPolicy,
      cache |-> <<[type |-> "memory", ttl |-> 1]>> ],
    [ path |-> <<"/", "o", "r", "g", "s", "/", ":", "i", "d">>, method |-> <<"G", "E", "T">>,
      query |-> <<"S", "E", "L", "E", "C", "T", " ", "*", " ", "F", "R", "O", "M", " ", "o", "r", "g", "s", " ", "W", "H", "E", "R", "E", " ", "o", "r", "g", " ", "=", " ", "$", "1">>,
      params |-> <<<<"o", "r", "g">>>>,
      auth |-> NoPolicy,
      pagination |-> NoPolicy,
      cache |-> NoPolicy ],
    [ path |-> <<"/", "o", "r", "g", "s", "/", ":", "o", "r", "g", "/", "u", "s", "e", "r", "s">>, method |-> <<"G", "E", "T">>,
      query |-> <<"S", "E", "L", "E", "C", "T", " ", "i", "d", " ", "F", "R", "O", "M", " ", "u", "s", "e", "r", "s", " ", "W", "H", "E", "R", "E", " ", "o", "r", "g", " ", "=", " ", "$", "1">>,
      params |-> <<<<"o", "r", "g">>>>,
      auth |-> NoPolicy,
      pagination |-> <<[enabled |-> TRUE, defaultLimit |-> 2, maxLimit |-> 3]>>,
      cache |-> NoPolicy ],
    [ path |-> <<"/", "o", "n", "e">>, method |-> <<"G", "E", "T">>,
      query |-> <<"S", "E", "L", "E", "C", "T", " ", "1">>,
      params |-> <<>>,
      auth |-> NoPolicy,
      pagination |-> <<[enabled |-> TRUE, defaultLimit |-> 2, maxLimit |-> 3]>>,
      cache |-> NoPolicy ] >>

-----------------------------------------------------------------------------
(* utils/pagination.ts. A JavaScript number that may be NaN is <<>> for    *)
(* NaN and <<n>> for n.                                                    *)

NaN == <<>>

\* the index of the first character of s at or after i that is not whitespace
RECURSIVE SkipSpace(_, _)
SkipSpace(s, i) == IF i <= Len(s) /\ s[i] \in WhiteSpace THEN SkipSpace(s, i + 1) ELSE i

\* parseInt(s, 10)
parseInt(s) ==
    LET i == SkipSpace(s, 1)
        signed == i <= Len(s) /\ s[i] \in {"-", "+"}
        d == IF signed THEN i + 1 ELSE i
    IN  IF d <= Len(s) /\ IsDigit(s[d])
        THEN LET n == ParseDigits(SubSeq(s, d, DigitRunEnd(s, d)))
             IN  <<IF signed /\ s[i] = "-" THEN 0 - n ELSE n>>
        ELSE NaN

\* Number.prototype.toString of a non-negative integer
RECURSIVE ToDecimal(_)
ToDecimal(n) ==
    IF n < 10 THEN <<Digits[n + 1]>>
    ELSE ToDecimal(n \div 10) \o <<Digits[(n % 10) + 1]>>

\* s.split(sep) for a one-character separator, reading from i
RECURSIVE SplitOn(_, _, _, _)
SplitOn(s, sep, i, cur) ==
    IF i > Len(s) THEN <<cur>>
    ELSE IF s[i] = sep THEN <<cur>> \o SplitOn(s, sep, i + 1, <<>>)
    ELSE SplitOn(s, sep, i + 1, Append(cur, s[i]))

\* one name=value piece of a query string as a [k, v] pair
SearchPair(piece) ==
    LET eq == IndexOf(piece, <<"=">>)
    IN  IF eq = 0 THEN [k |-> piece, v |-> <<>>]
        ELSE [k |-> SubSeq(piece, 1, eq - 1), v |-> SubSeq(piece, eq + 1, Len(piece))]

\* new URL(...).searchParams: the pairs of the query string, in order; empty
\* pieces are dropped
SearchParams(search) ==
    LET pieces == SplitOn(search, "&", 1, <<>>)
        kept == SelectSeq(pieces, LAMBDA piece : piece # <<>>)
    IN  [i \in 1..Len(kept) |-> SearchPair(kept[i])]

\* searchParams.get(name): <<>> for null, else <<value of the first pair>>
SearchGet(pairs, name) ==
    IF \E i \in 1..Len(pairs) : pairs[i].k = name
    THEN <<pairs[CHOOSE i \in 1..Len(pairs) :
                    pairs[i].k = name /\ \A j \in 1..(i - 1) : pairs[j].k # name].v>>
    ELSE <<>>

\* searchParams.toString(): the pairs joined in the order they came in
RECURSIVE SerializePairs(_)
SerializePairs(pairs) ==
    IF pairs = <<>> THEN <<>>
    ELSE Head(pairs).k \o <<"=">> \o Head(pairs).v
         \o (IF Len(pairs) > 1 THEN <<"&">> ELSE <<>>) \o SerializePairs(Tail(pairs))

\* x || fallback for a string-or-null x
OrElse(opt, fallback) == IF opt = <<>> \/ opt[1] = <<>> THEN fallback ELSE opt[1]

\* getPaginationParams without the clamp to maxLimit
getPaginationParamsUnclamped(config, search) ==
    LET pairs == SearchParams(search)
        pageParam == OrElse(SearchGet(pairs, <<"p", "a", "g", "e">>), <<"1">>)
        limitParam == OrElse(SearchGet(pairs, <<"l", "i", "m", "i", "t">>), ToDecimal(config.defaultLimit))
        parsedPage == parseInt(pageParam)
        page == IF parsedPage = NaN THEN NaN
                ELSE IF parsedPage[1] > 1 THEN parsedPage ELSE <<1>>
        parsedLimit == parseInt(limitParam)
        limit == IF parsedLimit = NaN \/ parsedLimit[1] < 1
                 THEN config.defaultLimit ELSE parsedLimit[1]
        offset == IF page = NaN THEN NaN ELSE <<(page[1] - 1) * limit>>
    IN  [offset |-> offset, limit |-> limit, page |-> page]

\* getPaginationParams: page, limit and offset are NaN (<<>>) or <<integer>>,
\* limit always an integer
getPaginationParams(config, search) ==
    LET pairs == SearchParams(search)
        pageParam == OrElse(SearchGet(pairs, <<"p", "a", "g", "e">>), <<"1">>)
        limitParam == OrElse(SearchGet(pairs, <<"l", "i", "m", "i", "t">>), ToDecimal(config.defaultLimit))
        parsedPage == parseInt(pageParam)
        page == IF parsedPage = NaN THEN NaN
                ELSE IF parsedPage[1] > 1 THEN parsedPage ELSE <<1>>
        parsedLimit == parseInt(limitParam)
        limit1 == IF parsedLimit = NaN \/ parsedLimit[1] < 1
                  THEN config.defaultLimit ELSE parsedLimit[1]
        limit == IF limit1 > config.maxLimit THEN config.maxLimit ELSE limit1
        offset == IF page = NaN THEN NaN ELSE <<(page[1] - 1) * limit>>
    IN  [offset |-> offset, limit |-> limit, page |-> page]

\* the error validatePaginationParams throws, or "ok"
validatePaginationParams(config, page, limit) ==
    IF page # NaN /\ page[1] < 1 THEN "Page number must be greater than 0"
    ELSE IF limit < 1 THEN "Limit must be greater than 0"
    ELSE IF limit > config.maxLimit THEN "Limit cannot exceed maxLimit"
    ELSE "ok"

-----------------------------------------------------------------------------
(* database/query.ts: QueryExecutor                                        *)

\* a bound value: a string taken from the path, or a number
StrVal(s) == [str |-> s]
NumVal(n) == [num |-> n]

HasValue(params, name) == name \in DOMAIN params /\ params[name] # Undefined

\* the loop over route.params: the values bound, or the first name that has
\* no value
BindValues(route, params) ==
    LET missing == {i \in 1..Len(route.params) : ~HasValue(params, route.params[i])}
    IN  IF missing = {}
        THEN [ok |-> TRUE,
              values |-> [i \in 1..Len(route.params) |-> StrVal(params[route.params[i]])]]
        ELSE [ok |-> FALSE,
              name |-> route.params[CHOOSE i \in missing : \A j \in missing : i <= j]]

\* the text a bound value would have if written into the statement
ValueText(v) ==
    IF "str" \in DOMAIN v THEN <<"'">> \o v.str \o <<"'">>
    ELSE IF v.num = NaN THEN <<"N", "a", "N">> ELSE ToDecimal(v.num[1])

\* the template executeTemplate builds, from index i on: the literal pieces
\* of the statement and, for each $n, the number n
RECURSIVE TemplateFrom(_, _, _)
TemplateFrom(query, i, cur) ==
    IF i > Len(query) THEN [strings |-> <<cur>>, holes |-> <<>>]
    ELSE IF query[i] = "$" /\ i + 1 <= Len(query) /\ IsDigit(query[i + 1])
         THEN LET e == DigitRunEnd(query, i + 1)
                  rest == TemplateFrom(query, e + 1, <<>>)
              IN  [strings |-> <<cur>> \o rest.strings,
                   holes |-> <<ParseDigits(SubSeq(query, i + 1, e))>> \o rest.holes]
         ELSE TemplateFrom(query, i + 1, Append(cur, query[i]))

\* the statement text the driver sends for a tagged template: the pieces
\* joined by $1, $2, ... in order of occurrence
RECURSIVE JoinPieces(_, _)
JoinPieces(strings, k) ==
    IF Len(strings) = 1 THEN strings[1]
    ELSE strings[1] \o <<"$">> \o ToDecimal(k) \o JoinPieces(Tail(strings), k + 1)

\* a template that writes each value into the statement text
RECURSIVE JoinInlined(_, _)
JoinInlined(strings, vals) ==
    IF Len(strings) = 1 THEN strings[1]
    ELSE strings[1] \o ValueText(Head(vals)) \o JoinInlined(Tail(strings), Tail(vals))

\* executeTemplate concatenating the values into the text
executeTemplateInlined(query, values) ==
    LET t == TemplateFrom(query, 1, <<>>)
    IN  IF \E j \in 1..Len(t.holes) : t.holes[j] \notin 1..Len(values)
        THEN [ok |-> FALSE, error |-> "ReferenceError"]
        ELSE [ok |-> TRUE,
              text |-> JoinInlined(t.strings, [j \in 1..Len(t.holes) |-> values[t.holes[j]]]),
              holes |-> t.holes,
              args |-> [j \in 1..Len(t.holes) |-> values[t.holes[j]]]]

\* executeTemplate reading values[n - 1] instead of naming a destructured
\* v<n-1>: a $n past the values is bound to undefined
executeTemplateIndexed(query, values) ==
    LET t == TemplateFrom(query, 1, <<>>)
    IN  [ok |-> TRUE,
         text |-> JoinPieces(t.strings, 1),
         holes |-> t.holes,
         args |-> [j \in 1..Len(t.holes) |->
                     IF t.holes[j] \in 1..Len(values) THEN values[t.holes[j]]
                     ELSE [undefined |-> TRUE]]]

\* executeTemplate: the statement submitted (its text, the number n of each
\* ${v<n-1>} of the template and the values bound), or the ReferenceError
\* of a ${v<n-1>} that names no destructured value
executeTemplate(query, values) ==
    LET t == TemplateFrom(query, 1, <<>>)
    IN  IF \E j \in 1..Len(t.holes) : t.holes[j] \notin 1..Len(values)
        THEN [ok |-> FALSE, error |-> "ReferenceError"]
        ELSE [ok |-> TRUE,
              text |-> JoinPieces(t.strings, 1),
              holes |-> t.holes,
              args |-> [j \in 1..Len(t.holes) |-> values[t.holes[j]]]]

PaginationEnabled(route) == route.pagination # NoPolicy /\ route.pagination[1].enabled

\* buildAndExecuteQuery appending LIMIT and OFFSET whatever the statement holds
buildAndExecuteQueryAlwaysAppend(route, params, paginationParams) ==
    LET bound == BindValues(route, params)
    IN  IF ~bound.ok THEN [ok |-> FALSE, error |-> "MissingParameter", name |-> bound.name]
        ELSE IF PaginationEnabled(route) /\ paginationParams # <<>>
             THEN executeTemplate(
                    route.query \o <<" ", "L", "I", "M", "I", "T", " ", "$">> \o ToDecimal(Len(bound.values) + 1)
                                \o <<" ", "O", "F", "F", "S", "E", "T", " ", "$">> \o ToDecimal(Len(bound.values) + 2),
                    bound.values \o <<NumVal(<<paginationParams[1].limit>>),
                                       NumVal(paginationParams[1].offset)>>)
             ELSE executeTemplate(route.query, bound.values)

\* buildAndExecuteQuery up to the submission: the statement submitted, or
\* the error thrown before it. paginationParams is <<>> when not passed.
buildAndExecuteQuery(route, params, paginationParams) ==
    LET bound == BindValues(route, params)
    IN  IF ~bound.ok THEN [ok |-> FALSE, error |-> "MissingParameter", name |-> bound.name]
        ELSE IF /\ PaginationEnabled(route)
                /\ paginationParams # <<>>
                /\ ~Includes(ToLowerCase(route.query), <<"l", "i", "m", "i", "t">>)
                /\ ~Includes(ToLowerCase(route.query), <<"o", "f", "f", "s", "e", "t">>)
             THEN executeTemplate(
                    route.query \o <<" ", "L", "I", "M", "I", "T", " ", "$">> \o ToDecimal(Len(bound.values) + 1)
                                \o <<" ", "O", "F", "F", "S", "E", "T", " ", "$">> \o ToDecimal(Len(bound.values) + 2),
                    bound.values \o <<NumVal(<<paginationParams[1].limit>>),
                                       NumVal(paginationParams[1].offset)>>)
             ELSE executeTemplate(route.query, bound.values)

\* executeCountQuery cutting at `limit` in preference to `order by`
buildCountQueryLimitFirst(route, params) ==
    LET baseQuery == ToLowerCase(route.query)
        selectIndex == IndexOf(baseQuery, <<"s", "e", "l", "e", "c", "t">>)
        fromIndex == IndexOf(baseQuery, <<"f", "r", "o", "m">>)
    IN  IF selectIndex = 0 \/ fromIndex = 0 THEN [ok |-> FALSE, error |-> "CannotGenerateCount"]
        ELSE LET fromClause == SubSeq(route.query, fromIndex, Len(route.query))
                 orderByIndex == IndexOf(ToLowerCase(fromClause), <<"o", "r", "d", "e", "r", " ", "b", "y">>)
                 limitIndex == IndexOf(ToLowerCase(fromClause), <<"l", "i", "m", "i", "t">>)
                 whereClause ==
                    IF limitIndex # 0 THEN SubSeq(fromClause, 1, limitIndex - 1)
                    ELSE IF orderByIndex # 0 THEN SubSeq(fromClause, 1, orderByIndex - 1)
                    ELSE fromClause
                 countQuery == <<"S", "E", "L", "E", "C", "T", " ", "C", "O", "U", "N", "T", "(", "*", ")", " ", "a", "s", " ", "t", "o", "t", "a", "l", " ">> \o whereClause
                 bound == BindValues(route, params)
             IN  IF ~bound.ok
                 THEN [ok |-> FALSE, error |-> "MissingParameter", name |-> bound.name]
                 ELSE executeTemplate(countQuery, bound.values)

\* executeCountQuery up to the submission: the count statement submitted,
\* or the error its catch block turns into 0
buildCountQuery(route, params) ==
    LET baseQuery == ToLowerCase(route.query)
        selectIndex == IndexOf(baseQuery, <<"s", "e", "l", "e", "c", "t">>)
        fromIndex == IndexOf(baseQuery, <<"f", "r", "o", "m">>)
    IN  IF selectIndex = 0 \/ fromIndex = 0 THEN [ok |-> FALSE, error |-> "CannotGenerateCount"]
        ELSE LET fromClause == SubSeq(route.query, fromIndex, Len(route.query))
                 orderByIndex == IndexOf(ToLowerCase(fromClause), <<"o", "r", "d", "e", "r", " ", "b", "y">>)
                 limitIndex == IndexOf(ToLowerCase(fromClause), <<"l", "i", "m", "i", "t">>)
                 whereClause ==
                    IF orderByIndex # 0 THEN SubSeq(fromClause, 1, orderByIndex - 1)
                    ELSE IF limitIndex # 0 THEN SubSeq(fromClause, 1, limitIndex - 1)
                    ELSE fromClause
                 countQuery == <<"S", "E", "L", "E", "C", "T", " ", "C", "O", "U", "N", "T", "(", "*", ")", " ", "a", "s", " ", "t", "o", "t", "a", "l", " ">> \o whereClause
                 bound == BindValues(route, params)
             IN  IF ~bound.ok
                 THEN [ok |-> FALSE, error |-> "MissingParameter", name |-> bound.name]
                 ELSE executeTemplate(countQuery, bound.values)

-----------------------------------------------------------------------------
(* Two requests to one route, executed side by side.                       *)

ExecPaths == {
    <<"/", "u", "s", "e", "r", "s">>,
    <<"/", "u", "s", "e", "r", "s", "/", "1">>,
    <<"/", "u", "s", "e", "r", "s", "/", "2">>,
    <<"/", "o", "r", "g", "s", "/", "7">>,
    <<"/", "o", "r", "g", "s", "/", "7", "/", "u", "s", "e", "r", "s">>,
    <<"/", "o", "r", "g", "s", "/", "8", "/", "u", "s", "e", "r", "s">>,
    <<"/", "o", "r", "g", "s", "/", "1", "'", "-", "-", "/", "u", "s", "e", "r", "s">> }

ExecSearches == {
    <<>>,
    <<"p", "a", "g", "e", "=", "2">>,
    <<"p", "a", "g", "e", "=", "2", "&", "l", "i", "m", "i", "t", "=", "3">>,
    <<"l", "i", "m", "i", "t", "=", "1">> }

ExecIdle == xRoute = 0 /\ xReqs = <<>> /\ xOut = <<>>

ExecInit ==
    /\ xRoute \in 1..Len(Routes)
    /\ xReqs \in [1..2 -> {r \in [path : ExecPaths, search : ExecSearches] :
                              matchPath(Routes[xRoute].path, r.path)}]
    /\ xOut = [i \in 1..2 |-> <<>>]

\* executeQuery's call of buildAndExecuteQuery for request i
Execute(i) ==
    /\ xOut[i] = <<>>
    /\ LET route == Routes[xRoute]
           params == extractPathParams(route.path, xReqs[i].path)
           paginationParams ==
               IF PaginationEnabled(route)
               THEN <<getPaginationParams(route.pagination[1], xReqs[i].search)>>
               ELSE <<>>
       IN  xOut' = [xOut EXCEPT ![i] = <<buildAndExecuteQuery(route, params, paginationParams)>>]
    /\ UNCHANGED <<xRoute, xReqs, validatorVars, parserVars, routeVars, cacheVars, handlerVars, utilVars>>

ExecNext == \E i \in 1..2 : Execute(i)

\* C1: the statement text submitted depends only on the route (its
\* configured statement and whether pagination augmentation applies): two
\* requests to one route that differ in path parameter values, page or limit
\* submit the same text, and their values travel as bound parameters only.
C1_SameText ==
    \A i, j \in DOMAIN xOut :
        (xOut[i] # <<>> /\ xOut[j] # <<>> /\ xOut[i][1].ok /\ xOut[j][1].ok) =>
            /\ xOut[i][1].text = xOut[j][1].text
            /\ Len(xOut[i][1].args) = Len(xOut[j][1].args)
            /\ \A k \in 1..Len(Routes[xRoute].params) :
                   xOut[i][1].args[k] =
                       StrVal(extractPathParams(Routes[xRoute].path, xReqs[i].path)
                                  [Routes[xRoute].params[k]])

\* two requests to the paginated /orgs/:org/users route with different org,
\* page and limit were both submitted
C1_Witness ==
    /\ xRoute = 4
    /\ xOut[1] # <<>> /\ xOut[2] # <<>>
    /\ xOut[1][1].ok /\ xOut[2][1].ok
    /\ \A k \in 1..3 : xOut[1][1].args[k] # xOut[2][1].args[k]

-----------------------------------------------------------------------------
(* api/middleware.ts, utils/response.ts, utils/pagination.ts: the pieces   *)
(* handleRequest calls                                                     *)

\* process.env.API_KEY split on ","
ValidApiKeys == {<<"s", "3", "c", "r", "e", "t">>}

\* the message authenticate throws, or "ok"; apiKey is <<>> for no header
authenticate(authConfig, apiKey) ==
    IF ~authConfig.required THEN "ok"
    ELSE IF apiKey = <<>> \/ apiKey[1] = <<>> THEN "Missing required header: x-api-key"
    ELSE IF apiKey[1] \notin ValidApiKeys THEN "Invalid API key"
    ELSE "ok"

JsonHeaders == [contentType |-> "application/json"]

\* createApiResponse without a wrapper policy, for an error
ErrorBody(message, code, t) ==
    [success |-> FALSE, error |-> [message |-> message, code |-> code],
     meta |-> [timestamp |-> t]]

\* createErrorResponse
createErrorResponse(message, code, status, t) ==
    [status |-> status, body |-> <<ErrorBody(message, code, t)>>, headers |-> JsonHeaders]

\* createApiResponse without a wrapper policy, for data
SuccessBody(data, meta) == [success |-> TRUE, data |-> data, meta |-> meta]

\* Math.floor(a / b) for a >= 0, b >= 1
FloorDiv(a, b) == a \div b

\* Math.ceil(a / b) for a >= 0, b >= 1
CeilDiv(a, b) == (a + b - 1) \div b

createPaginatedResponse(data, totalCount, page, limit) ==
    LET totalPages == CeilDiv(totalCount, limit)
    IN  [data |-> data,
         pagination |-> [page |-> page, limit |-> limit, total |-> totalCount,
                         pages |-> totalPages,
                         hasNext |-> page # NaN /\ page[1] < totalPages,
                         hasPrev |-> page # NaN /\ page[1] > 1]]

\* parseInt(String(countResult.total), 10) || 0; total is <<>> when absent
ParseTotal(total) ==
    LET n == parseInt(IF total = <<>> THEN <<"u", "n", "d", "e", "f", "i", "n", "e", "d">> ELSE total[1])
    IN  IF n = NaN THEN 0 ELSE n[1]

-----------------------------------------------------------------------------
(* api/handlers.ts: RequestHandler.handleRequest                           *)

\* getCacheKey: <<>> for null, else <<key>>
getCacheKey(route, req) ==
    IF route.cache = NoPolicy \/ route.cache[1].type # "memory" THEN <<>>
    ELSE LET normalizedSearch == SerializePairs(SearchParams(req.search))
             queryPart == IF normalizedSearch # <<>> THEN <<"?">> \o normalizedSearch ELSE <<>>
         IN  <<route.method \o <<":">> \o req.path \o queryPart>>

UsesCache(route, cacheKey) ==
    cacheKey # <<>> /\ route.cache # NoPolicy /\ route.cache[1].type = "memory"

\* the requests clients send
Requests == {
    [method |-> <<"G", "E", "T">>, path |-> <<"/", "u", "s", "e", "r", "s">>, search |-> <<"p", "a", "g", "e", "=", "1", "&", "l", "i", "m", "i", "t", "=", "2">>, apiKey |-> <<>>],
    [method |-> <<"G", "E", "T">>, path |-> <<"/", "u", "s", "e", "r", "s">>, search |-> <<"l", "i", "m", "i", "t", "=", "2", "&", "p", "a", "g", "e", "=", "1">>, apiKey |-> <<>>],
    [method |-> <<"G", "E", "T">>, path |-> <<"/", "u", "s", "e", "r", "s", "/", "1">>, search |-> <<>>, apiKey |-> <<<<"s", "3", "c", "r", "e", "t">>>>],
    [method |-> <<"G", "E", "T">>, path |-> <<"/", "u", "s", "e", "r", "s", "/", "1">>, search |-> <<>>, apiKey |-> <<<<"g", "u", "e", "s", "s">>>>],
    [method |-> <<"G", "E", "T">>, path |-> <<"/", "o", "r", "g", "s", "/", "1">>, search |-> <<>>, apiKey |-> <<>>],
    [method |-> <<"G", "E", "T">>, path |-> <<"/", "o", "n", "e">>, search |-> <<>>, apiKey |-> <<>>],
    [method |-> <<"G", "E", "T">>, path |-> <<"/", "n", "o", "p", "e">>, search |-> <<>>, apiKey |-> <<>>],
    [method |-> <<"G", "E", "T">>, path |-> <<"/", "h", "e", "a", "l", "t", "h">>, search |-> <<>>, apiKey |-> <<>>],
    [method |-> <<"O", "P", "T", "I", "O", "N", "S">>, path |-> <<"/", "u", "s", "e", "r", "s">>, search |-> <<>>, apiKey |-> <<>>] }

\* the pairs of a query string as a bag: what is left of it when the order of
\* the pairs is forgotten
PairCount(pairs, p) == Cardinality({i \in 1..Len(pairs) : pairs[i] = p})

SamePairs(search1, search2) ==
    LET ps1 == SearchParams(search1)
        ps2 == SearchParams(search2)
    IN  /\ Len(ps1) = Len(ps2)
        /\ \A i \in 1..Len(ps1) : PairCount(ps1, ps1[i]) = PairCount(ps2, ps1[i])

\* what the database answers to a primary statement and to a count statement
PrimaryOutcomes == {
    [ok |-> TRUE, rows |-> <<[id |-> 1]>>],
    [ok |-> FALSE, message |-> <<"c", "o", "n", "n", "e", "c", "t", "i", "o", "n", " ", "l", "o", "s", "t">>] }

CountOutcomes == {
    [ok |-> TRUE, total |-> <<<<"3">>>>],
    [ok |-> TRUE, total |-> <<>>],
    [ok |-> TRUE, total |-> <<<<"n", "/", "a">>>>],
    [ok |-> FALSE, message |-> <<"c", "o", "n", "n", "e", "c", "t", "i", "o", "n", " ", "l", "o", "s", "t">>] }

\* a response together with what the request did on its way: the statements
\* it submitted and what it did to the cache
Finished(req, kind, resp, fromCache, stmts, history) ==
    [req |-> req, kind |-> kind, status |-> resp.status, body |-> resp.body,
     fromCache |-> fromCache, stmts |-> stmts,
     reachedCache |-> history.reachedCache, equivCached |-> history.equivCached,
     evicted |-> history.evicted, wrote |-> history.wrote,
     countFailed |-> history.countFailed, cause |-> history.cause,
     degraded |-> history.degraded, primaryFailed |-> history.primaryFailed,
     unsettled |-> history.unsettled, overwrote |-> history.overwrote]

NoHistory ==
    [reachedCache |-> FALSE, equivCached |-> FALSE, evicted |-> FALSE, wrote |-> FALSE,
     countFailed |-> FALSE, cause |-> <<>>, degraded |-> FALSE, primaryFailed |-> FALSE,
     unsettled |-> FALSE, overwrote |-> FALSE]

\* the catch block of handleRequest storing the error response in the cache
OnErrorCached(rec, message, st, t) ==
    LET resp == createErrorResponse(message, "INTERNAL_ERROR", 500, t)
    IN  [resp |-> resp,
         store |-> IF UsesCache(Routes[rec.route], rec.cacheKey)
                   THEN CacheSet(st, rec.cacheKey[1],
                                 [body |-> resp.body, status |-> resp.status,
                                  headers |-> resp.headers],
                                 Routes[rec.route].cache[1].ttl, t)
                   ELSE st]

\* the catch block of handleRequest: the response, and the store it leaves
OnError(rec, message, st, t) ==
    [resp |-> createErrorResponse(message, "INTERNAL_ERROR", 500, t), store |-> st]

\* the catch block of executeQuery: the message of the error it throws
WrapQueryError(message) == <<"Q", "u", "e", "r", "y", " ", "e", "x", "e", "c", "u", "t", "i", "o", "n", " ", "f", "a", "i", "l", "e", "d", ":", " ">> \o message

ErrorMessage(result) ==
    IF result.error = "MissingParameter"
    THEN <<"M", "i", "s", "s", "i", "n", "g", " ", "r", "e", "q", "u", "i", "r", "e", "d", " ", "p", "a", "r", "a", "m", "e", "t", "e", "r", ":", " ">> \o result.name
    ELSE <<"v", " ", "i", "s", " ", "n", "o", "t", " ", "d", "e", "f", "i", "n", "e", "d">>

\* handleRequest from the query results on: the response and the store
OnResults(rec, rows, totalCount, st, t) ==
    LET route == Routes[rec.route]
        body ==
            IF PaginationEnabled(route)
            THEN LET paginated == createPaginatedResponse(rows, totalCount,
                                      rec.pagination[1].page, rec.pagination[1].limit)
                 IN  SuccessBody(paginated.data,
                                 [timestamp |-> t, pagination |-> paginated.pagination])
            ELSE SuccessBody(rows, [timestamp |-> t, rowCount |-> Len(rows)])
        resp == [status |-> 200, body |-> <<body>>, headers |-> JsonHeaders]
    IN  [resp |-> resp,
         store |-> IF UsesCache(route, rec.cacheKey)
                   THEN CacheSet(st, rec.cacheKey[1],
                                 [body |-> resp.body, status |-> resp.status,
                                  headers |-> resp.headers],
                                 route.cache[1].ttl, t)
                   ELSE st]

\* the part of handleRequest that reads neither the cache nor the clock:
\* the route matched, the authentication, the cache key, the path parameters,
\* the pagination parameters and the statements built for the request
PlanOf(req) ==
    IF req.method = <<"O", "P", "T", "I", "O", "N", "S">> THEN [kind |-> "preflight"]
    ELSE IF req.path = <<"/", "h", "e", "a", "l", "t", "h">> /\ req.method = <<"G", "E", "T">> THEN [kind |-> "health"]
    ELSE LET ri == findMatchingRoute(Routes, req.path, req.method)
    IN  IF ri = 0 THEN [kind |-> "notFound"]
        ELSE IF Routes[ri].auth # NoPolicy
                /\ authenticate(Routes[ri].auth[1], req.apiKey) # "ok"
        THEN [kind |-> "unauthorized",
              message |-> authenticate(Routes[ri].auth[1], req.apiKey)]
        ELSE LET route == Routes[ri]
                 params == extractPathParams(route.path, req.path)
                 pagination == IF PaginationEnabled(route)
                               THEN <<getPaginationParams(route.pagination[1], req.search)>>
                               ELSE <<>>
             IN  [kind |-> "query", route |-> ri,
                  cacheKey |-> getCacheKey(route, req),
                  pagination |-> pagination,
                  invalid |-> IF pagination = <<>> THEN "ok"
                              ELSE validatePaginationParams(route.pagination[1],
                                       pagination[1].page, pagination[1].limit),
                  primary |-> buildAndExecuteQuery(route, params, pagination),
                  count |-> IF PaginationEnabled(route)
                            THEN <<buildCountQuery(route, params)>> ELSE <<>>]

\* the requests sent to the route that requires a key: with the valid key,
\* with a wrong key and without the header
AuthRouteRequests ==
    {[method |-> <<"G", "E", "T">>, path |-> path, search |-> <<>>, apiKey |-> key] :
        path \in {<<"/", "u", "s", "e", "r", "s", "/", "1">>, <<"/", "u", "s", "e", "r", "s", "/", "2">>},
        key \in {<<<<"s", "3", "c", "r", "e", "t">>>>, <<<<"g", "u", "e", "s", "s">>>>, <<>>}}

Plans == [req \in Requests \cup AuthRouteRequests |-> PlanOf(req)]

\* the keys of the requests that differ from req at most in the order of
\* their query-string pairs
EquivalentKeys ==
    [req \in DOMAIN Plans |->
        {Plans[r2].cacheKey[1] : r2 \in
            {r2 \in DOMAIN Plans :
                /\ r2.method = req.method /\ r2.path = req.path
                /\ SamePairs(r2.search, req.search)
                /\ Plans[r2].kind = "query"
                /\ Plans[r2].cacheKey # <<>>}}]

\* there is an unexpired entry under the key of a request that differs from
\* req at most in the order of its query-string pairs
EquivalentCached(req, st, t) ==
    \E k \in EquivalentKeys[req] : k \in DOMAIN st /\ st[k].expiresAt > t

Statement(kind, built) == [kind |-> kind, text |-> built.text, args |-> built.args]

\* a response returned without the database
Done(req, kind, resp, fromCache, stmts, history, st) ==
    [done |-> TRUE, store |-> st,
     fin |-> Finished(req, kind, resp, fromCache, stmts, history)]

\* the request whose statements the database has been handed
Awaiting(req, plan, countStmts, hist) ==
    [req |-> req, route |-> plan.route, cacheKey |-> plan.cacheKey,
     pagination |-> plan.pagination,
     stmts |-> <<Statement("primary", plan.primary)>> \o countStmts,
     primary |-> "pending", rows |-> <<>>,
     count |-> IF plan.count = <<>> THEN "none"
               ELSE IF plan.count[1].ok THEN "pending" ELSE "failed",
     total |-> 0,
     hist |-> [hist EXCEPT !.countFailed = plan.count # <<>> /\ ~plan.count[1].ok,
                           !.degraded = plan.count # <<>> /\ ~plan.count[1].ok]]

\* the statement built for the request threw before it was submitted
ThrownEarly(req, plan, countStmts, hist, out, st1) ==
    Done(req,
         IF plan.primary.error = "MissingParameter" THEN "missingParameter" ELSE "queryFailed",
         out.resp, FALSE, countStmts,
         [hist EXCEPT !.wrote = out.store # st1,
                      !.primaryFailed = TRUE,
                      !.cause = IF plan.primary.error = "MissingParameter"
                                THEN plan.primary.name ELSE ErrorMessage(plan.primary)],
         out.store)

\* handleRequest after the cache lookup: cached is what cache.get returned
\* and st1 the store it left
AfterLookup(req, plan, cached, st1, hist, countStmts, t) ==
    IF cached # <<>>
    THEN Done(req, "cached", [status |-> cached[1].status, body |-> cached[1].body],
              TRUE, <<>>, hist, st1)
    ELSE IF plan.invalid # "ok"
    THEN Done(req, "badPagination",
              createErrorResponse(plan.invalid, "INVALID_PAGINATION", 400, t),
              FALSE, <<>>, hist, st1)
    ELSE IF ~plan.primary.ok
    THEN ThrownEarly(req, plan, countStmts, hist,
                     OnError([route |-> plan.route, cacheKey |-> plan.cacheKey],
                             WrapQueryError(ErrorMessage(plan.primary)), st1, t),
                     st1)
    ELSE [done |-> FALSE, store |-> st1, rec |-> Awaiting(req, plan, countStmts, hist)]

\* handleRequest from the cache lookup on
Lookup(req, plan, looked, st, t) ==
    AfterLookup(req, plan,
                IF looked THEN CacheGetResult(st, plan.cacheKey[1], t) ELSE <<>>,
                IF looked THEN CacheGetStore(st, plan.cacheKey[1], t) ELSE st,
                [NoHistory EXCEPT
                    !.reachedCache = looked,
                    !.equivCached = looked /\ EquivalentCached(req, st, t),
                    !.evicted = looked /\ CacheGetStore(st, plan.cacheKey[1], t) # st],
                IF plan.count # <<>> /\ plan.count[1].ok
                THEN <<Statement("count", plan.count[1])>> ELSE <<>>,
                t)

\* handleRequest looking the cache up before it authenticates: a request
\* refused by authenticate is served the entry stored under its key
HandlePlanCacheFirst(req, plan, ping, st, t) ==
    IF plan.kind = "unauthorized"
    THEN LET route == Routes[findMatchingRoute(Routes, req.path, req.method)]
             key == getCacheKey(route, req)
             cached == IF UsesCache(route, key) THEN CacheGetResult(st, key[1], t) ELSE <<>>
         IN  IF cached # <<>>
             THEN Done(req, "cached", [status |-> cached[1].status, body |-> cached[1].body],
                       TRUE, <<>>, NoHistory, CacheGetStore(st, key[1], t))
             ELSE Done(req, "unauthorized",
                       createErrorResponse(plan.message, "AUTHENTICATION_FAILED", 401, t),
                       FALSE, <<>>, NoHistory, st)
    ELSE IF plan.kind = "preflight"
    THEN Done(req, "preflight", [status |-> 200, body |-> <<>>], FALSE, <<>>, NoHistory, st)
    ELSE IF plan.kind = "health"
    THEN Done(req, "health",
              [status |-> IF ping THEN 200 ELSE 503,
               body |-> <<[status |-> IF ping THEN "healthy" ELSE "unhealthy"]>>],
              FALSE, <<>>, NoHistory, st)
    ELSE IF plan.kind = "notFound"
    THEN Done(req, "notFound",
              createErrorResponse(<<"R", "o", "u", "t", "e", " ", "n", "o", "t", " ", "f", "o", "u", "n", "d", ":", " ">> \o req.method \o <<" ">> \o req.path,
                                  "ROUTE_NOT_FOUND", 404, t),
              FALSE, <<>>, NoHistory, st)
    ELSE Lookup(req, plan, UsesCache(Routes[plan.route], plan.cacheKey), st, t)

\* handleRequest for a request whose plan is plan
HandlePlan(req, plan, ping, st, t) ==
    IF plan.kind = "preflight"
    THEN Done(req, "preflight", [status |-> 200, body |-> <<>>], FALSE, <<>>, NoHistory, st)
    ELSE IF plan.kind = "health"
    THEN Done(req, "health",
              [status |-> IF ping THEN 200 ELSE 503,
               body |-> <<[status |-> IF ping THEN "healthy" ELSE "unhealthy"]>>],
              FALSE, <<>>, NoHistory, st)
    ELSE IF plan.kind = "notFound"
    THEN Done(req, "notFound",
              createErrorResponse(<<"R", "o", "u", "t", "e", " ", "n", "o", "t", " ", "f", "o", "u", "n", "d", ":", " ">> \o req.method \o <<" ">> \o req.path,
                                  "ROUTE_NOT_FOUND", 404, t),
              FALSE, <<>>, NoHistory, st)
    ELSE IF plan.kind = "unauthorized"
    THEN Done(req, "unauthorized",
              createErrorResponse(plan.message, "AUTHENTICATION_FAILED", 401, t),
              FALSE, <<>>, NoHistory, st)
    ELSE Lookup(req, plan, UsesCache(Routes[plan.route], plan.cacheKey), st, t)

\* handleRequest up to its first await of the database. done: the response
\* is returned without the database; otherwise rec awaits its statements.
HandleSync(req, ping, st, t) == HandlePlan(req, Plans[req], ping, st, t)

MaxInFlight == 1
MaxClockTicks == 2

HandlerIdle == inflight = EmptyBag /\ last = <<>>

HandlerInit == inflight = EmptyBag /\ last = <<>>

One(rec) == SetToBag({rec})

\* the handler returns, or suspends the request on the database
Suspend(sync) ==
    /\ store' = sync.store
    /\ IF sync.done
       THEN last' = <<sync.fin>> /\ UNCHANGED inflight
       ELSE inflight' = inflight (+) One(sync.rec) /\ last' = <<>>

\* a request arrives and runs to its first await of the database; only the
\* health check pings the database
Begin(req, ping) ==
    /\ BagCardinality(inflight) < MaxInFlight
    /\ Plans[req].kind # "health" => ping
    /\ Suspend(HandleSync(req, ping, store, now))
    /\ UNCHANGED <<now, cOp, cRet, cWritten, validatorVars, parserVars, routeVars, execVars, utilVars>>

\* the response out ends the awaiting request rec
Return(rec, kind, out, hist) ==
    /\ store' = out.store
    /\ last' = <<Finished(rec.req, kind, out.resp, FALSE, rec.stmts,
                          [hist EXCEPT
                              !.wrote = out.store # store,
                              !.overwrote = /\ out.store # store
                                            /\ rec.cacheKey # <<>>
                                            /\ rec.cacheKey[1] \in DOMAIN store])>>
    /\ inflight' = inflight (-) One(rec)

\* the awaiting request rec goes on awaiting as rec2
Await(rec, rec2) ==
    /\ inflight' = (inflight (-) One(rec)) (+) One(rec2)
    /\ last' = <<>>
    /\ UNCHANGED store

\* a request whose statements have all settled returns
Respond(rec, settled) ==
    Return(rec, "ok", OnResults(settled, settled.rows, settled.total, store, now),
           [settled.hist EXCEPT
               !.unsettled = settled.primary = "pending" \/ settled.count = "pending"])

\* a request whose primary statement failed returns
RespondError(rec, message) ==
    Return(rec, "queryFailed", OnError(rec, WrapQueryError(message), store, now),
           [rec.hist EXCEPT !.cause = message, !.primaryFailed = TRUE,
                            !.unsettled = rec.count = "pending"])

\* the primary statement settling the request without Promise.all: the
\* response is built while the count statement is still out
SettlePrimaryNoWait(rec, outcome) ==
    /\ BagIn(rec, inflight)
    /\ rec.primary = "pending"
    /\ IF ~outcome.ok THEN RespondError(rec, outcome.message)
       ELSE Respond(rec, [rec EXCEPT !.rows = outcome.rows])
    /\ UNCHANGED <<now, cOp, cRet, cWritten, validatorVars, parserVars, routeVars, execVars, utilVars>>

\* the database settles the primary statement of an awaiting request; the
\* request goes on to its response unless Promise.all still waits for the
\* count
SettlePrimary(rec, outcome) ==
    /\ BagIn(rec, inflight)
    /\ rec.primary = "pending"
    /\ IF ~outcome.ok THEN RespondError(rec, outcome.message)
       ELSE IF rec.count = "pending"
       THEN Await(rec, [rec EXCEPT !.primary = "ok", !.rows = outcome.rows])
       ELSE Respond(rec, [rec EXCEPT !.primary = "ok", !.rows = outcome.rows])
    /\ UNCHANGED <<now, cOp, cRet, cWritten, validatorVars, parserVars, routeVars, execVars, utilVars>>

\* rec once its count statement has settled
Counted(rec, outcome) ==
    [rec EXCEPT !.count = IF outcome.ok THEN "ok" ELSE "failed",
                !.total = IF outcome.ok THEN ParseTotal(outcome.total) ELSE 0,
                !.hist = [rec.hist EXCEPT
                            !.countFailed = ~outcome.ok,
                            !.degraded = \/ ~outcome.ok
                                         \/ outcome.total = <<>>
                                         \/ parseInt(outcome.total[1]) = NaN]]

\* a failed count statement rejecting the request, as a bare Promise.all would
SettleCountRejecting(rec, outcome) ==
    /\ BagIn(rec, inflight)
    /\ rec.count = "pending"
    /\ IF ~outcome.ok
       THEN Return(rec, "queryFailed", OnError(rec, WrapQueryError(outcome.message), store, now),
                   [rec.hist EXCEPT !.countFailed = TRUE, !.degraded = TRUE,
                                    !.cause = outcome.message,
                                    !.unsettled = rec.primary = "pending"])
       ELSE IF rec.primary = "pending"
       THEN Await(rec, Counted(rec, outcome))
       ELSE Respond(rec, Counted(rec, outcome))
    /\ UNCHANGED <<now, cOp, cRet, cWritten, validatorVars, parserVars, routeVars, execVars, utilVars>>

\* the database settles the count statement of an awaiting request
SettleCount(rec, outcome) ==
    /\ BagIn(rec, inflight)
    /\ rec.count = "pending"
    /\ IF rec.primary = "pending"
       THEN Await(rec, Counted(rec, outcome))
       ELSE Respond(rec, Counted(rec, outcome))
    /\ UNCHANGED <<now, cOp, cRet, cWritten, validatorVars, parserVars, routeVars, execVars, utilVars>>

\* time passes
Tick ==
    /\ now + TickMs <= MaxClockTicks * TickMs
    /\ now' = now + TickMs
    /\ last' = <<>>
    /\ UNCHANGED <<store, cOp, cRet, cWritten, inflight,
                   validatorVars, parserVars, routeVars, execVars, utilVars>>

MaxConcurrent == 2

\* one request for each cache key of the routes that use the cache
CachedRouteRequests ==
    {req \in Requests :
        /\ Plans[req].kind = "query"
        /\ UsesCache(Routes[Plans[req].route], Plans[req].cacheKey)
        /\ req.search \in {<<>>, <<"p", "a", "g", "e", "=", "1", "&", "l", "i", "m", "i", "t", "=", "2">>}}

\* a request to a cached route arrives while others await the database
BeginConcurrent(req) ==
    /\ BagCardinality(inflight) < MaxConcurrent
    /\ Suspend(HandleSync(req, TRUE, store, now))
    /\ UNCHANGED <<now, cOp, cRet, cWritten, validatorVars, parserVars, routeVars, execVars, utilVars>>

NextConcurrent ==
    \/ \E req \in CachedRouteRequests : BeginConcurrent(req)
    \/ \E rec \in BagToSet(inflight), outcome \in PrimaryOutcomes : SettlePrimary(rec, outcome)
    \/ \E rec \in BagToSet(inflight), outcome \in CountOutcomes : SettleCount(rec, outcome)
    \/ Tick

NextAuth ==
    \/ \E req \in AuthRouteRequests : BeginConcurrent(req)
    \/ \E rec \in BagToSet(inflight), outcome \in PrimaryOutcomes : SettlePrimary(rec, outcome)
    \/ Tick

Next ==
    \/ \E req \in Requests, ping \in BOOLEAN : Begin(req, ping)
    \/ \E rec \in BagToSet(inflight), outcome \in PrimaryOutcomes : SettlePrimary(rec, outcome)
    \/ \E rec \in BagToSet(inflight), outcome \in CountOutcomes : SettleCount(rec, outcome)
    \/ Tick

-----------------------------------------------------------------------------
(* Properties of the request handler                                       *)

\* the responses the last step returned: at most one
Answers == {last[i] : i \in DOMAIN last}

\* the requests that reached the cache lookup and missed
Missed == {f \in Answers : f.reachedCache /\ ~f.fromCache}
              \cup {rec.hist : rec \in BagToSet(inflight)}

\* the message of an error response
MessageOf(f) == f.body[1].error.message

\* C7: two requests with the same method and path whose query strings carry
\* the same pairs in a different order have the same cache key: a request
\* that reaches the cache lookup while an unexpired entry written for such a
\* request exists is served from the cache.
C7_OrderInsensitive == \A h \in Missed : ~h.equivCached

\* the request on the cached route failed in its primary statement
FailedPrimary(f) == f.kind = "queryFailed" /\ f.reachedCache

\* every cache entry holds a status-200 success body
CacheHoldsSuccess ==
    \A k \in DOMAIN store :
        /\ store[k].value.status = 200
        /\ store[k].value.body # <<>>
        /\ store[k].value.body[1].success

\* the answer to a failed primary statement: 500 with the wrapped original
\* message, and nothing written to the cache
FailureAnswered(f) ==
    /\ f.status = 500
    /\ f.body[1].success = FALSE
    /\ MessageOf(f) = WrapQueryError(f.cause)
    /\ ~f.wrote

\* C8 as stated: a failed primary statement is answered with 500 carrying
\* the original message and leaves the cache store exactly as it was before
\* the request; every cache entry holds a status-200 success body.
C8_AsStated ==
    /\ \A f \in Answers : FailedPrimary(f) => (FailureAnswered(f) /\ ~f.evicted)
    /\ CacheHoldsSuccess

\* C8: a failed primary statement is answered with 500 carrying the wrapped
\* original message and the request writes nothing to the cache (its lookup
\* may have removed an expired entry under its key); every cache entry holds
\* a status-200 success body.
C8_NoWriteOnFailure ==
    /\ \A f \in Answers : FailedPrimary(f) => FailureAnswered(f)
    /\ CacheHoldsSuccess

\* a primary statement failed in the database on a cached route while the
\* cache held an entry
C8_Witness ==
    /\ \E f \in Answers : FailedPrimary(f) /\ f.stmts # <<>>
    /\ store # <<>>

\* C9: a response whose count statement failed (total degraded to 0) is not
\* written to the cache.
C9_NoDegradedCached ==
    \A f \in Answers : (f.kind = "ok" /\ f.countFailed) => ~f.wrote

\* C10: a request to a route that declares a parameter name the path does
\* not supply fails naming that parameter, is answered with status 400, and
\* submits no statement.
C10_MissingParameter ==
    \A f \in Answers :
        f.kind = "missingParameter" =>
            /\ f.status = 400
            /\ Includes(MessageOf(f), <<"M", "i", "s", "s", "i", "n", "g", " ", "r", "e", "q", "u", "i", "r", "e", "d", " ", "p", "a", "r", "a", "m", "e", "t", "e", "r", ":", " ">> \o f.cause)
            /\ f.stmts = <<>>

\* the request went to a paginated route and was answered from the results
\* of its statements
PaginatedAnswer(f) ==
    /\ Plans[f.req].kind = "query"
    /\ PaginationEnabled(Routes[Plans[f.req].route])
    /\ ~f.fromCache
    /\ f.kind # "badPagination"

\* C15: a request to a paginated route whose primary query succeeds is
\* answered with a success response carrying the primary rows whatever the
\* count query did; when the count statement cannot be derived, fails in the
\* driver, or returns an absent or unparseable total, the total reported is 0.
C15_CountNeverBlocks ==
    \A f \in Answers :
        (PaginatedAnswer(f) /\ ~f.primaryFailed) =>
            /\ f.kind = "ok"
            /\ f.status = 200
            /\ f.body[1].success
            /\ \E o \in PrimaryOutcomes : o.ok /\ f.body[1].data = o.rows
            /\ f.degraded => f.body[1].meta.pagination.total = 0

\* rows were returned with total 0 from a route whose statement has no FROM
C15_Witness ==
    \E f \in Answers :
        /\ PaginatedAnswer(f) /\ f.kind = "ok" /\ f.degraded
        /\ f.req.path = <<"/", "o", "n", "e">>
        /\ f.body[1].meta.pagination.total = 0

\* rows were returned with total 0 after the count statement failed in the
\* driver
C15_WitnessDriver ==
    \E f \in Answers :
        /\ PaginatedAnswer(f) /\ f.kind = "ok" /\ f.countFailed
        /\ f.req.path = <<"/", "u", "s", "e", "r", "s">>
        /\ f.body[1].meta.pagination.total = 0

\* rows were returned with total 0 after the count statement returned no
\* usable total
C15_WitnessUnparseable ==
    \E f \in Answers :
        /\ PaginatedAnswer(f) /\ f.kind = "ok" /\ f.degraded /\ ~f.countFailed
        /\ f.body[1].meta.pagination.total = 0

\* the kinds of the statements a request submitted, in order
KindsOf(stmts) == [i \in DOMAIN stmts |-> stmts[i].kind]

\* the route of a request that matched one
RouteOf(req) == Routes[Plans[req].route]

\* the request got past the cache lookup (or its route has no cache) and its
\* pagination parameters were accepted
CacheMiss(f) == f.kind \in {"ok", "queryFailed", "missingParameter"}

SubmittedBy ==
    [ri \in DOMAIN Routes |->
        <<"primary">> \o
        (IF /\ PaginationEnabled(Routes[ri])
            /\ Includes(ToLowerCase(Routes[ri].query), <<"s", "e", "l", "e", "c", "t">>)
            /\ Includes(ToLowerCase(Routes[ri].query), <<"f", "r", "o", "m">>)
         THEN <<"count">> ELSE <<>>)]

Submitted(req) == SubmittedBy[Plans[req].route]

C21_WitnessCached ==
    \E f \in Answers : f.fromCache /\ f.stmts = <<>> /\ f.status = 200

\* a failed primary statement was answered while the count was still out
C21_WitnessEarlyFailure ==
    \E f \in Answers :
        f.kind = "queryFailed" /\ f.unsettled /\ KindsOf(f.stmts) = <<"primary", "count">>

\* the entry the answer f of a cached route leaves in the store at clock t
EntryOf(f, t) ==
    [value |-> [body |-> f.body, status |-> f.status, headers |-> JsonHeaders],
     expiresAt |-> t + RouteOf(f.req).cache[1].ttl * MsPerSecond]

\* every entry is a whole (body, status, headers, expiry) tuple, and what a
\* get handed to a request is the body and status of the entry stored
WholeEntries ==
    /\ \A k \in DOMAIN store :
           /\ DOMAIN store[k] = {"value", "expiresAt"}
           /\ DOMAIN store[k].value = {"body", "status", "headers"}
           /\ store[k].value.body # <<>>
           /\ store[k].expiresAt \in Nat
    /\ \A f \in Answers :
           f.fromCache =>
               /\ Plans[f.req].cacheKey[1] \in DOMAIN store
               /\ f.body = store[Plans[f.req].cacheKey[1]].value.body
               /\ f.status = store[Plans[f.req].cacheKey[1]].value.status
               /\ store[Plans[f.req].cacheKey[1]].expiresAt > now

\* what one step does to the store: an entry stays as it is, or is evicted
\* once expired, or is the whole entry of the request that completes in
\* this step, with its expiry counted from the clock of the step; and the
\* request that completes with rows on a cached route leaves its entry
WrittenByOne ==
    /\ \A k \in DOMAIN store \cup DOMAIN store' :
           \/ k \in DOMAIN store /\ k \in DOMAIN store' /\ store'[k] = store[k]
           \/ k \in DOMAIN store /\ k \notin DOMAIN store' /\ store[k].expiresAt <= now
           \/ /\ k \in DOMAIN store'
              /\ \E f \in Answers' :
                     /\ f.kind = "ok" /\ Plans[f.req].cacheKey = <<k>>
                     /\ store'[k] = EntryOf(f, now)
    /\ \A f \in Answers' :
           (f.kind = "ok" /\ Plans[f.req].cacheKey # <<>>) =>
               /\ Plans[f.req].cacheKey[1] \in DOMAIN store'
               /\ store'[Plans[f.req].cacheKey[1]] = EntryOf(f, now)

\* C22: with several requests in flight at once, every entry of the cache
\* store is at all times a whole (body, status, headers, expiry) tuple
\* written by one request's set, a get never hands out part of an entry,
\* and under each key the store holds the entry of the last request that
\* completed its write, with its expiry counted from the clock at that write.
C22_Interleaved == []WholeEntries /\ [][WrittenByOne]_vars

\* the route handleRequest matches the request to, 0 for none
MatchedRoute(req) == findMatchingRoute(Routes, req.path, req.method)

\* the request reaches the authentication of a route whose policy is
\* required and carries no key, or one that is not among the valid keys
WithoutValidKey(req) ==
    /\ req.method # <<"O", "P", "T", "I", "O", "N", "S">>
    /\ ~(req.path = <<"/", "h", "e", "a", "l", "t", "h">> /\ req.method = <<"G", "E", "T">>)
    /\ MatchedRoute(req) # 0
    /\ Routes[MatchedRoute(req)].auth # NoPolicy
    /\ Routes[MatchedRoute(req)].auth[1].required
    /\ (req.apiKey = <<>> \/ req.apiKey[1] \notin ValidApiKeys)

\* the cache key of a request to a route that uses the cache
KeyOf(req) == getCacheKey(Routes[MatchedRoute(req)], req)

\* an unexpired entry is stored under the cache key of the request
EntryStored(req, st, t) ==
    /\ KeyOf(req) # <<>>
    /\ KeyOf(req)[1] \in DOMAIN st
    /\ st[KeyOf(req)[1]].expiresAt > t

\* what a request without a valid key is answered: the 401 error body with
\* no data, never a stored body, and no statement
Refused ==
    \A f \in Answers :
        WithoutValidKey(f.req) =>
            /\ f.kind = "unauthorized" /\ f.status = 401
            /\ ~f.fromCache /\ ~f.reachedCache
            /\ f.stmts = <<>>
            /\ DOMAIN f.body[1] = {"success", "error", "meta"}
            /\ f.body[1].success = FALSE
            /\ f.body[1].error.code = "AUTHENTICATION_FAILED"
            /\ \A k \in DOMAIN store : f.body # store[k].value.body

\* the step that answers a request without a valid key leaves the store as
\* it was, expired entries included, and submits nothing
RefusedLeavesCache ==
    \A f \in Answers' :
        WithoutValidKey(f.req) => (store' = store /\ inflight' = inflight)

\* no request awaiting the database lacks a valid key
NoneAwaitingWithoutKey == \A rec \in BagToSet(inflight) : ~WithoutValidKey(rec.req)

\* C23: on a route whose authentication is required a request without a
\* valid API key is answered 401 and never gets a cached body, submits no
\* statement and leaves the cache unchanged, even while an unexpired entry
\* written by an authenticated request is stored under its cache key.
C23_AuthBeforeCache ==
    /\ [](Refused /\ NoneAwaitingWithoutKey)
    /\ [][RefusedLeavesCache]_vars

\* a request with a wrong key was refused while the unexpired entry an
\* authenticated request wrote was stored under its cache key
C23_Witness ==
    \E f \in Answers :
        /\ WithoutValidKey(f.req) /\ f.req.apiKey # <<>>
        /\ f.status = 401
        /\ EntryStored(f.req, store, now)
        /\ store[KeyOf(f.req)[1]].value.status = 200

\* a request with no key at all was refused while such an entry was stored
C23_WitnessNoHeader ==
    \E f \in Answers :
        /\ WithoutValidKey(f.req) /\ f.req.apiKey = <<>>
        /\ f.status = 401
        /\ MessageOf(f) = "Missing required header: x-api-key"
        /\ EntryStored(f.req, store, now)

\* two requests for one key were in flight together: the second to complete
\* replaced the entry the first had written, at a later clock
C22_Witness ==
    \E f \in Answers :
        /\ f.kind = "ok" /\ f.overwrote
        /\ now > 0
        /\ store[Plans[f.req].cacheKey[1]] = EntryOf(f, now)

-----------------------------------------------------------------------------
(* utils/pagination.ts on its own: every policy and raw query value        *)

MaxLimit == 3
MaxTotal == 4

\* the pagination policies the schema accepts, with integer limits
Policies ==
    {pol \in [enabled : {TRUE}, defaultLimit : 1..MaxLimit, maxLimit : 1..MaxLimit] :
        pol.defaultLimit <= pol.maxLimit}

\* raw values of a query parameter; <<>> stands for an absent parameter
Absent == <<>>
RawValues == {<<<<>>>>, <<<<"a", "b", "c">>>>, <<<<"0">>>>, <<<<"-", "1">>>>, <<<<"1">>>>, <<<<"2">>>>,
              <<<<"5">>>>, <<<<"2", "x">>>>, <<<<" ", "3">>>>}

\* the query string carrying the raw page and limit values
SearchOf(rawPage, rawLimit) ==
    (IF rawPage = Absent THEN <<>> ELSE <<"p", "a", "g", "e", "=">> \o rawPage[1])
    \o (IF rawPage # Absent /\ rawLimit # Absent THEN <<"&">> ELSE <<>>)
    \o (IF rawLimit = Absent THEN <<>> ELSE <<"l", "i", "m", "i", "t", "=">> \o rawLimit[1])

PageIdle ==
    /\ gPolicy = <<>> /\ gSearch = <<>> /\ gParams = <<>>
    /\ gTotal = 0 /\ gResult = <<>>

PageInit ==
    /\ gPolicy \in Policies
    /\ gSearch \in {SearchOf(rp, rl) : rp, rl \in RawValues \cup {Absent}}
    /\ gTotal \in 0..MaxTotal
    /\ gParams = <<>>
    /\ gResult = <<>>

\* handleRequest reads the pagination parameters of the request
GetParams ==
    /\ gParams = <<>>
    /\ gParams' = <<getPaginationParams(gPolicy, gSearch)>>
    /\ UNCHANGED <<gPolicy, gSearch, gTotal, gResult, validatorVars, parserVars, routeVars,
                   cacheVars, execVars, handlerVars, stmtVars, shapeVars, startVars>>

\* handleRequest describes the page once the count is known
CreatePage ==
    /\ gParams # <<>>
    /\ gResult = <<>>
    /\ gResult' = <<createPaginatedResponse(<<>>, gTotal, gParams[1].page, gParams[1].limit)>>
    /\ UNCHANGED <<gPolicy, gSearch, gTotal, gParams, validatorVars, parserVars, routeVars,
                   cacheVars, execVars, handlerVars, stmtVars, shapeVars, startVars>>

PageNext == GetParams \/ CreatePage

\* the raw value of a parameter of the request: <<>> when absent
RawOf(name) == SearchGet(SearchParams(gSearch), name)

\* the integer a raw value parses to, NaN when it is absent, empty or does
\* not begin with an integer
ParsedOf(name) ==
    IF RawOf(name) = <<>> \/ RawOf(name)[1] = <<>> THEN NaN ELSE parseInt(RawOf(name)[1])

\* C11: the page returned is an integer >= 1: 1 when the raw value is
\* absent, does not parse or parses below 1, the parsed integer otherwise;
\* the offset is a non-negative integer.
C11_PageAtLeastOne ==
    gParams # <<>> =>
        /\ gParams[1].page # NaN
        /\ gParams[1].page[1] >= 1
        /\ gParams[1].page[1] =
               (IF ParsedOf(<<"p", "a", "g", "e">>) = NaN \/ ParsedOf(<<"p", "a", "g", "e">>)[1] < 1
                THEN 1 ELSE ParsedOf(<<"p", "a", "g", "e">>)[1])
        /\ gParams[1].offset # NaN
        /\ gParams[1].offset[1] >= 0

\* the limit the policy prescribes for the raw value
ExpectedLimit ==
    IF ParsedOf(<<"l", "i", "m", "i", "t">>) = NaN \/ ParsedOf(<<"l", "i", "m", "i", "t">>)[1] < 1 THEN gPolicy.defaultLimit
    ELSE IF ParsedOf(<<"l", "i", "m", "i", "t">>)[1] > gPolicy.maxLimit THEN gPolicy.maxLimit
    ELSE ParsedOf(<<"l", "i", "m", "i", "t">>)[1]

\* C12: the limit returned lies in 1..maxLimit: defaultLimit when the raw
\* value is absent, unparseable or below 1, maxLimit when it parses above
\* maxLimit, the parsed value otherwise; offset = (page - 1) * limit.
C12_LimitClamped ==
    gParams # <<>> =>
        /\ gParams[1].limit \in 1..gPolicy.maxLimit
        /\ gParams[1].limit = ExpectedLimit
        /\ gParams[1].offset =
               (IF gParams[1].page = NaN THEN NaN
                ELSE <<(gParams[1].page[1] - 1) * gParams[1].limit>>)

\* a limit above maxLimit was clamped on a page after the first
C12_Witness ==
    /\ gParams # <<>>
    /\ ParsedOf(<<"l", "i", "m", "i", "t">>) # NaN
    /\ ParsedOf(<<"l", "i", "m", "i", "t">>)[1] > gPolicy.maxLimit
    /\ gPolicy.defaultLimit < gPolicy.maxLimit
    /\ gParams[1].limit = gPolicy.maxLimit
    /\ gParams[1].page = <<2>>

\* k = ceil(total / limit): the least k with k * limit >= total
IsCeil(k, total, limit) == k * limit >= total /\ (k - 1) * limit < total

\* C13: for total >= 0, limit >= 1 and page >= 1, pages = ceil(total/limit),
\* hasNext = (page < pages) and hasPrev = (page > 1); a request without
\* query parameters reports page 1, no previous page, and a next page
\* exactly when total > limit.
C13_Metadata ==
    (gResult # <<>> /\ gParams[1].page # NaN) =>
        LET meta == gResult[1].pagination
            page == gParams[1].page[1]
        IN  /\ meta.total = gTotal
            /\ IsCeil(meta.pages, gTotal, gParams[1].limit)
            /\ meta.hasNext = (page < meta.pages)
            /\ meta.hasPrev = (page > 1)
            /\ gSearch = <<>> =>
                   /\ meta.page = <<1>>
                   /\ meta.limit = gPolicy.defaultLimit
                   /\ ~meta.hasPrev
                   /\ meta.hasNext = (gTotal > meta.limit)

\* a request without query parameters was told there is a next page, the
\* total not being a multiple of the limit
C13_Witness ==
    /\ gResult # <<>>
    /\ gSearch = <<>>
    /\ gResult[1].pagination.hasNext
    /\ gTotal % gParams[1].limit # 0

-----------------------------------------------------------------------------
(* database/query.ts on its own: the statements built for a route          *)

\* configured statements: with and without ORDER BY, LIMIT and OFFSET, with
\* `from` and `limit` inside identifiers, with placeholders out of order,
\* repeated and numbered 0, without FROM
Statements == {
    <<"S", "E", "L", "E", "C", "T", " ", "i", "d", ",", " ", "n", "a", "m", "e", " ", "F", "R", "O", "M", " ", "u", "s", "e", "r", "s", " ", "W", "H", "E", "R", "E", " ", "a", "c", "t", "i", "v", "e", " ", "=", " ", "$", "1", " ", "O", "R", "D", "E", "R", " ", "B", "Y", " ", "n", "a", "m", "e", " ", "L", "I", "M", "I", "T", " ", "1", "0">>,
    <<"S", "E", "L", "E", "C", "T", " ", "i", "d", " ", "F", "R", "O", "M", " ", "u", "s", "e", "r", "s">>,
    <<"s", "e", "l", "e", "c", "t", " ", "i", "d", " ", "f", "r", "o", "m", " ", "u", "s", "e", "r", "s", " ", "w", "h", "e", "r", "e", " ", "o", "r", "g", " ", "=", " ", "$", "1", " ", "l", "i", "m", "i", "t", " ", "5">>,
    <<"S", "E", "L", "E", "C", "T", " ", "i", "d", " ", "F", "R", "O", "M", " ", "u", "s", "e", "r", "s", " ", "L", "I", "M", "I", "T", " ", "5", " ", "O", "R", "D", "E", "R", " ", "B", "Y", " ", "i", "d">>,
    <<"S", "E", "L", "E", "C", "T", " ", "i", "d", " ", "F", "R", "O", "M", " ", "u", "s", "e", "r", "s", " ", "W", "H", "E", "R", "E", " ", "o", "r", "g", " ", "=", " ", "$", "1", " ", "o", "r", "d", "e", "r", " ", "b", "y", " ", "i", "d">>,
    <<"S", "E", "L", "E", "C", "T", " ", "i", "d", " ", "F", "R", "O", "M", " ", "u", "s", "e", "r", "s", " ", "O", "F", "F", "S", "E", "T", " ", "2">>,
    <<"S", "E", "L", "E", "C", "T", " ", "f", "r", "o", "m", "_", "d", "a", "t", "e", " ", "F", "R", "O", "M", " ", "e", "v", "e", "n", "t", "s">>,
    <<"S", "E", "L", "E", "C", "T", " ", "i", "d", " ", "F", "R", "O", "M", " ", "r", "a", "t", "e", "_", "l", "i", "m", "i", "t", "s">>,
    <<"S", "E", "L", "E", "C", "T", " ", "$", "1", " ", "A", "S", " ", "t", "a", "g", ",", " ", "i", "d", " ", "F", "R", "O", "M", " ", "u", "s", "e", "r", "s", " ", "W", "H", "E", "R", "E", " ", "o", "r", "g", " ", "=", " ", "$", "2">>,
    <<"S", "E", "L", "E", "C", "T", " ", "i", "d", " ", "F", "R", "O", "M", " ", "u", "s", "e", "r", "s", " ", "W", "H", "E", "R", "E", " ", "a", " ", "=", " ", "$", "1", " ", "A", "N", "D", " ", "b", " ", "=", " ", "$", "2">>,
    <<"S", "E", "L", "E", "C", "T", " ", "i", "d", " ", "F", "R", "O", "M", " ", "u", "s", "e", "r", "s", " ", "W", "H", "E", "R", "E", " ", "b", " ", "=", " ", "$", "2", " ", "A", "N", "D", " ", "a", " ", "=", " ", "$", "1", " ", "O", "R", " ", "b", " ", "=", " ", "$", "2">>,
    <<"S", "E", "L", "E", "C", "T", " ", "$", "0", ",", " ", "i", "d", " ", "F", "R", "O", "M", " ", "u", "s", "e", "r", "s", " ", "W", "H", "E", "R", "E", " ", "o", "r", "g", " ", "=", " ", "$", "1">>,
    <<"S", "E", "L", "E", "C", "T", " ", "1">> }

\* the names a route declares, and the path parameters of the request
DeclaredNames == <<<<"p", "1">>, <<"p", "2">>>>
StmtParams == [name \in Range(DeclaredNames) |-> <<"v">> \o Tail(name)]

PagingPolicies ==
    {NoPolicy, <<[enabled |-> TRUE, defaultLimit |-> 2, maxLimit |-> 3]>>,
     <<[enabled |-> FALSE, defaultLimit |-> 2, maxLimit |-> 3]>>}

\* the pagination parameters requests arrive with
PagingParams ==
    [limit : 1..MaxLimit, offset : {NaN} \cup {<<k>> : k \in 0..MaxTotal}, page : {<<1>>}]

StmtIdle == qRoute = <<>> /\ qPaged = <<>> /\ qPlain = <<>> /\ qCount = <<>>

\* the routes parseConfig accepts among those built from Statements
StmtInit ==
    /\ qRoute \in {r \in [query : Statements,
                          params : {SubSeq(DeclaredNames, 1, n) : n \in 0..Len(DeclaredNames)},
                          pagination : PagingPolicies] :
                     parseRoute(r.query, r.params) = "ok"}
    /\ qPaged = <<>>
    /\ qPlain = <<>>
    /\ qCount = <<>>

\* executeQuery(route, params, paginationParams)
RunPaged(paging) ==
    /\ qPaged = <<>>
    /\ qPaged' = <<[paging |-> paging,
                    out |-> buildAndExecuteQuery(qRoute, StmtParams, <<paging>>)]>>
    /\ UNCHANGED <<qRoute, qPlain, qCount, validatorVars, parserVars, routeVars, cacheVars,
                   execVars, handlerVars, pageVars, shapeVars, startVars>>

\* executeQuery(route, params)
RunPlain ==
    /\ qPlain = <<>>
    /\ qPlain' = <<buildAndExecuteQuery(qRoute, StmtParams, <<>>)>>
    /\ UNCHANGED <<qRoute, qPaged, qCount, validatorVars, parserVars, routeVars, cacheVars,
                   execVars, handlerVars, pageVars, shapeVars, startVars>>

\* executeCountQuery(route, params)
DeriveCount ==
    /\ qCount = <<>>
    /\ qCount' = <<buildCountQuery(qRoute, StmtParams)>>
    /\ UNCHANGED <<qRoute, qPaged, qPlain, validatorVars, parserVars, routeVars, cacheVars,
                   execVars, handlerVars, pageVars, shapeVars, startVars>>

StmtNext == (\E paging \in PagingParams : RunPaged(paging)) \/ RunPlain \/ DeriveCount

\* the values of the declared parameters, in declaration order
DeclaredValues == [i \in 1..Len(qRoute.params) |-> StrVal(StmtParams[qRoute.params[i]])]

\* the least index at which w occurs in s, 0 when it does not occur
FirstAt(s, w) ==
    IF \E i \in 1..Len(s) : OccursAt(s, w, i)
    THEN CHOOSE i \in 1..Len(s) : OccursAt(s, w, i) /\ \A j \in 1..(i - 1) : ~OccursAt(s, w, j)
    ELSE 0

\* the statement's text from its first `from` on, cut immediately before
\* `order by` if that occurs in it, else before `limit` if that occurs
CountClause(query) ==
    LET text == SubSeq(query, FirstAt(ToLowerCase(query), <<"f", "r", "o", "m">>), Len(query))
        orderBy == FirstAt(ToLowerCase(text), <<"o", "r", "d", "e", "r", " ", "b", "y">>)
        limit == FirstAt(ToLowerCase(text), <<"l", "i", "m", "i", "t">>)
    IN  IF orderBy # 0 THEN SubSeq(text, 1, orderBy - 1)
        ELSE IF limit # 0 THEN SubSeq(text, 1, limit - 1)
        ELSE text

HasSelectFrom(query) ==
    FirstAt(ToLowerCase(query), <<"s", "e", "l", "e", "c", "t">>) # 0 /\ FirstAt(ToLowerCase(query), <<"f", "r", "o", "m">>) # 0

\* the count statement is the template of text, bound with the declared
\* parameters: each $n of text stands for the n-th declared parameter
CountIs(text) ==
    /\ qCount[1] = executeTemplate(text, DeclaredValues)
    /\ qCount[1].ok
    /\ \A j \in 1..Len(qCount[1].args) :
           qCount[1].args[j] = DeclaredValues[TemplateFrom(text, 1, <<>>).holes[j]]

Augmentable(query) ==
    FirstAt(ToLowerCase(query), <<"l", "i", "m", "i", "t">>) = 0 /\ FirstAt(ToLowerCase(query), <<"o", "f", "f", "s", "e", "t">>) = 0

\* C16: with n declared parameters, pagination enabled and neither `limit`
\* nor `offset` in the statement, the statement executed is the configured
\* one followed by " LIMIT $<n+1> OFFSET $<n+2>", bound to the n parameter
\* values followed by limit and offset; otherwise statement and values are
\* those of the execution without pagination.
C16_Augmentation ==
    (qPaged # <<>> /\ qPlain # <<>>) =>
        LET n == Len(qRoute.params)
            paging == qPaged[1].paging
        IN  IF PaginationEnabled(qRoute) /\ Augmentable(qRoute.query)
            THEN /\ qPaged[1].out =
                        executeTemplate(
                            qRoute.query \o <<" ", "L", "I", "M", "I", "T", " ", "$">> \o ToDecimal(n + 1)
                                         \o <<" ", "O", "F", "F", "S", "E", "T", " ", "$">> \o ToDecimal(n + 2),
                            DeclaredValues \o <<NumVal(<<paging.limit>>), NumVal(paging.offset)>>)
                 /\ qPaged[1].out.ok = qPlain[1].ok
                 /\ qPlain[1].ok =>
                     /\ Len(qPaged[1].out.args) = Len(qPlain[1].args) + 2
                     /\ qPaged[1].out.args[Len(qPlain[1].args) + 1] = NumVal(<<paging.limit>>)
                     /\ qPaged[1].out.args[Len(qPlain[1].args) + 2] = NumVal(paging.offset)
                     /\ qPaged[1].out.text =
                            qPlain[1].text \o <<" ", "L", "I", "M", "I", "T", " ", "$">> \o ToDecimal(Len(qPlain[1].args) + 1)
                                           \o <<" ", "O", "F", "F", "S", "E", "T", " ", "$">> \o ToDecimal(Len(qPlain[1].args) + 2)
            ELSE qPaged[1].out = qPlain[1]

\* a paginated route whose statement names a rate_limits table was executed
\* with pagination parameters
C16_Witness ==
    /\ qPaged # <<>> /\ qPlain # <<>>
    /\ PaginationEnabled(qRoute)
    /\ qRoute.query = <<"S", "E", "L", "E", "C", "T", " ", "i", "d", " ", "F", "R", "O", "M", " ", "r", "a", "t", "e", "_", "l", "i", "m", "i", "t", "s">>
    /\ qPaged[1].out.ok

\* a paginated route with two declared parameters was augmented
C16_WitnessAugmented ==
    /\ qPaged # <<>> /\ qPlain # <<>>
    /\ PaginationEnabled(qRoute)
    /\ Len(qRoute.params) = 2
    /\ Augmentable(qRoute.query)
    /\ Len(qPaged[1].out.args) = 4

\* the values buildAndExecuteQuery binds when it is passed paging
PagedValues(paging) ==
    IF PaginationEnabled(qRoute) /\ Augmentable(qRoute.query)
    THEN DeclaredValues \o <<NumVal(<<paging.limit>>), NumVal(paging.offset)>>
    ELSE DeclaredValues

\* the statements submitted for the route, each with the values bound for it
SubmittedStatements ==
    {s \in {[out |-> qPlain[i], bound |-> DeclaredValues] : i \in DOMAIN qPlain}
          \cup {[out |-> qPaged[i].out, bound |-> PagedValues(qPaged[i].paging)] :
                    i \in DOMAIN qPaged}
          \cup {[out |-> qCount[i], bound |-> DeclaredValues] : i \in DOMAIN qCount} :
        s.out.ok}

\* every $k of the statement handed to executeTemplate has 1 <= k <= the
\* number of values bound and is sent with the k-th of them, which is
\* defined; the text sent numbers its placeholders 1, 2, ... one for each
\* value sent
AllBound(s) ==
    /\ Len(s.out.holes) = Len(s.out.args)
    /\ \A j \in 1..Len(s.out.holes) :
           /\ s.out.holes[j] \in 1..Len(s.bound)
           /\ s.out.args[j] = s.bound[s.out.holes[j]]
           /\ "undefined" \notin DOMAIN s.out.args[j]
    /\ PlaceholderNumbers(s.out.text, 1) = [j \in 1..Len(s.out.args) |-> j]

\* C24: for every route parseConfig accepts, in each statement submitted
\* (the primary one, with LIMIT and OFFSET appended or not, and the count
\* one) every placeholder $k has 1 <= k <= the number of bound values and
\* is bound to the k-th of them, the first ones being the values of the
\* declared parameter names in order; no placeholder is sent undefined. A
\* statement with a placeholder outside that range is never submitted.
C24_EveryPlaceholderBound == \A s \in SubmittedStatements : AllBound(s)

\* the count statement of a route whose first placeholder stands before
\* FROM was submitted: its only placeholder is $2, sent with the value of
\* the second declared name
C24_Witness ==
    /\ qCount # <<>> /\ qCount[1].ok
    /\ Len(qRoute.params) = 2
    /\ qCount[1].holes = <<2>>
    /\ qCount[1].args = <<StrVal(StmtParams[qRoute.params[2]])>>

\* a paginated statement with a repeated placeholder was submitted with
\* LIMIT and OFFSET bound after the declared parameters
C24_WitnessAugmented ==
    /\ qPaged # <<>> /\ qPaged[1].out.ok
    /\ qPaged[1].out.holes = <<2, 1, 2, 3, 4>>

\* a route whose statement has $0 was accepted; its primary statement was
\* not submitted, its count statement was
C24_WitnessZero ==
    /\ qRoute.query = <<"S", "E", "L", "E", "C", "T", " ", "$", "0", ",", " ", "i", "d", " ", "F", "R", "O", "M", " ", "u", "s", "e", "r", "s", " ", "W", "H", "E", "R", "E", " ", "o", "r", "g", " ", "=", " ", "$", "1">>
    /\ qPlain # <<>> /\ ~qPlain[1].ok
    /\ qPaged # <<>> /\ ~qPaged[1].out.ok
    /\ qCount # <<>> /\ qCount[1].ok

-----------------------------------------------------------------------------
(* utils/response.ts: transformData and createApiResponse. An object is    *)
(* the sequence of its [k, v] entries in insertion order; the values are   *)
(* tokens, which the code moves and never inspects.                        *)

ObjKeys(obj) == {obj[i].k : i \in DOMAIN obj}

ObjGet(obj, key) == obj[CHOOSE i \in DOMAIN obj : obj[i].k = key].v

\* obj[key] = value: an existing key keeps its place
ObjSet(obj, key, value) ==
    IF key \in ObjKeys(obj)
    THEN [i \in DOMAIN obj |-> IF obj[i].k = key THEN [k |-> key, v |-> value] ELSE obj[i]]
    ELSE Append(obj, [k |-> key, v |-> value])

\* delete obj[key]
ObjDelete(obj, key) == SelectSeq(obj, LAMBDA e : e.k # key)

ToUpperChar(c) ==
    IF \E i \in 1..Len(LowerLetters) : LowerLetters[i] = c
    THEN UpperLetters[CHOOSE i \in 1..Len(LowerLetters) : LowerLetters[i] = c]
    ELSE c

\* str.replace(/_([a-z])/g, (_, letter) => letter.toUpperCase()), from i on
RECURSIVE CamelFrom(_, _)
CamelFrom(str, i) ==
    IF i > Len(str) THEN <<>>
    ELSE IF str[i] = "_" /\ i < Len(str) /\ str[i + 1] \in Range(LowerLetters)
         THEN <<ToUpperChar(str[i + 1])>> \o CamelFrom(str, i + 2)
         ELSE <<str[i]>> \o CamelFrom(str, i + 1)

toCamelCase(str) == CamelFrom(str, 1)

\* str.replace(/[A-Z]/g, (letter) => `_${letter.toLowerCase()}`), from i on
RECURSIVE SnakeFrom(_, _)
SnakeFrom(str, i) ==
    IF i > Len(str) THEN <<>>
    ELSE IF str[i] \in Range(UpperLetters)
         THEN <<"_", ToLowerChar(str[i])>> \o SnakeFrom(str, i + 1)
         ELSE <<str[i]>> \o SnakeFrom(str, i + 1)

toSnakeCase(str) == SnakeFrom(str, 1)

\* the loop of transformKeys over the entries from i on, for scalar values
RECURSIVE TransformEntries(_, _, _, _)
TransformEntries(obj, transformType, i, transformed) ==
    IF i > Len(obj) THEN transformed
    ELSE LET newKey == IF transformType = "camelCase" THEN toCamelCase(obj[i].k)
                       ELSE IF transformType = "snake_case" THEN toSnakeCase(obj[i].k)
                       ELSE obj[i].k
         IN  TransformEntries(obj, transformType, i + 1, ObjSet(transformed, newKey, obj[i].v))

transformKeys(obj, transformType) ==
    IF transformType = "none" THEN obj ELSE TransformEntries(obj, transformType, 1, <<>>)

\* for (const field of config.exclude) delete transformed[field]
RECURSIVE DeleteAll(_, _)
DeleteAll(obj, fields) ==
    IF fields = <<>> THEN obj ELSE DeleteAll(ObjDelete(obj, Head(fields)), Tail(fields))

\* for (const field of config.include) if (field in transformed) ...
RECURSIVE PickAll(_, _, _)
PickAll(obj, fields, filtered) ==
    IF fields = <<>> THEN filtered
    ELSE PickAll(obj, Tail(fields),
                 IF Head(fields) \in ObjKeys(obj)
                 THEN ObjSet(filtered, Head(fields), ObjGet(obj, Head(fields)))
                 ELSE filtered)

\* the body of data.map in transformData: one row
transformRow(item, config) ==
    IF config = NoPolicy THEN item
    ELSE LET excluded == IF Len(config[1].exclude) > 0
                         THEN DeleteAll(item, config[1].exclude) ELSE item
             included == IF Len(config[1].include) > 0
                         THEN PickAll(excluded, config[1].include, <<>>) ELSE excluded
         IN  transformKeys(included, config[1].transform)

\* createApiResponse: data and error are <<>> for undefined, wrapper is
\* <<>> when the policy has none, each wrapper key <<>> when unset
createApiResponse(data, wrapper, error) ==
    LET success == IF error = <<>> THEN "true" ELSE "false"
        response == <<[k |-> "success", v |-> success],
                      [k |-> "meta", v |-> "meta"]>>
                    \o (IF error # <<>> THEN <<[k |-> "error", v |-> error[1]]>>
                        ELSE IF data # <<>> THEN <<[k |-> "data", v |-> data[1]]>>
                        ELSE <<>>)
        w1 == IF wrapper # <<>> /\ wrapper[1].success # <<>>
              THEN ObjSet(<<>>, wrapper[1].success[1], success) ELSE <<>>
        w2 == IF wrapper # <<>> /\ wrapper[1].data # <<>> /\ error = <<>> /\ data # <<>>
              THEN ObjSet(w1, wrapper[1].data[1], data[1]) ELSE w1
        w3 == IF wrapper # <<>> /\ wrapper[1].meta # <<>>
              THEN ObjSet(w2, wrapper[1].meta[1], "meta") ELSE w2
        w4 == IF error # <<>> THEN ObjSet(w3, "error", error[1]) ELSE w3
    IN  IF wrapper # <<>> THEN w4 ELSE response

MaxFields == 2

FieldNames == {<<"i", "d">>, <<"i", "n", "t", "e", "r", "n", "a", "l", "_", "i", "d">>, <<"c", "r", "e", "a", "t", "e", "d", "_", "a", "t">>}

Rows == {
    <<[k |-> <<"i", "d">>, v |-> "1"], [k |-> <<"i", "n", "t", "e", "r", "n", "a", "l", "_", "i", "d">>, v |-> "x"],
      [k |-> <<"c", "r", "e", "a", "t", "e", "d", "_", "a", "t">>, v |-> "T"]>>,
    <<[k |-> <<"u", "s", "e", "r", "I", "d">>, v |-> "7"], [k |-> <<"i", "d">>, v |-> "1"]>> }

FieldLists == UNION {[1..n -> FieldNames] : n \in 0..MaxFields}

ResponsePolicies ==
    {NoPolicy} \cup
    {<<pol>> : pol \in [transform : {"none", "camelCase", "snake_case"},
                        exclude : FieldLists, include : FieldLists]}

WrapperKeys == {<<>>, <<"ok">>, <<"payload">>, <<"info">>, <<"error">>}

WrapperPolicies ==
    {NoPolicy} \cup {<<w>> : w \in [success : WrapperKeys, data : WrapperKeys, meta : WrapperKeys]}

ShapeIdle == sRow = <<>> /\ sPolicy = <<>> /\ sOut = <<>> /\ wOut = <<>>

ShapeInit ==
    /\ sRow \in Rows
    /\ sPolicy \in ResponsePolicies
    /\ sOut = <<>>
    /\ wOut = <<>>

\* transformData shapes the row
Transform ==
    /\ sOut = <<>>
    /\ sOut' = <<transformRow(sRow, sPolicy)>>
    /\ UNCHANGED <<sRow, sPolicy, wOut, validatorVars, parserVars, routeVars, cacheVars,
                   execVars, handlerVars, pageVars, stmtVars, startVars>>

\* the data and the wrapper policy createApiResponse is called with
WrapperInit ==
    /\ sRow \in {<<>>, <<"rows">>}
    /\ sPolicy \in WrapperPolicies
    /\ sOut = <<>>
    /\ wOut = <<>>

\* createApiResponse builds the body, with or without an error
Wrap(error) ==
    /\ wOut = <<>>
    /\ wOut' = <<[error |-> error, out |-> createApiResponse(sRow, sPolicy, error)]>>
    /\ UNCHANGED <<sRow, sPolicy, sOut, validatorVars, parserVars, routeVars, cacheVars,
                   execVars, handlerVars, pageVars, stmtVars, startVars>>

WrapNext == \E error \in {<<>>, <<"err">>} : Wrap(error)

\* the entries of obj whose keys are in keys, in the order of obj
Keep(obj, keys) == SelectSeq(obj, LAMBDA e : e.k \in keys)

\* C17: if exclude is set the listed fields are deleted and include is not
\* applied; otherwise, if include is set, exactly the row's fields named in
\* include are kept, in the row's field order; the key-case transform is
\* applied after filtering.
C17_FieldFiltering ==
    (sOut # <<>> /\ sPolicy # NoPolicy) =>
        LET pol == sPolicy[1]
            filtered == IF pol.exclude # <<>>
                        THEN Keep(sRow, ObjKeys(sRow) \ Range(pol.exclude))
                        ELSE IF pol.include # <<>>
                        THEN Keep(sRow, Range(pol.include))
                        ELSE sRow
        IN  sOut[1] = transformKeys(filtered, pol.transform)

\* the slots of the response with defined values, each with its value
Slots ==
    [success |-> <<IF wOut[1].error = <<>> THEN "true" ELSE "false">>,
     data |-> IF wOut[1].error = <<>> THEN sRow ELSE <<>>,
     meta |-> <<"meta">>]

\* C18: under a wrapper policy, every slot whose wrapper key is set and
\* whose value is defined appears under its configured key with its value
\* unchanged, whatever names the keys are given; the error appears under
\* `error`; a slot whose key is unset does not appear.
C18_WrapperPreserves ==
    (wOut # <<>> /\ sPolicy # NoPolicy) =>
        LET out == wOut[1].out
            shown == {slot \in {"success", "data", "meta"} :
                         sPolicy[1][slot] # <<>> /\ Slots[slot] # <<>>}
        IN  /\ \A slot \in shown :
                   /\ sPolicy[1][slot][1] \in ObjKeys(out)
                   /\ ObjGet(out, sPolicy[1][slot][1]) = Slots[slot][1]
            /\ wOut[1].error # <<>> =>
                   ("error" \in ObjKeys(out) /\ ObjGet(out, "error") = wOut[1].error[1])
            /\ ObjKeys(out) = {sPolicy[1][slot][1] : slot \in shown}
                                  \cup (IF wOut[1].error # <<>> THEN {"error"} ELSE {})

-----------------------------------------------------------------------------
(* Startup: validateConfig, ConfigParser.parseConfig / loadFromFile and    *)
(* DbRouter.initialize / start. A thrown error is threw |-> TRUE.          *)

RawRoutes == {
    [path |-> <<"/", "u", "s", "e", "r", "s">>, method |-> <<"G", "E", "T">>, query |-> <<"S", "E", "L", "E", "C", "T", " ", "1">>, params |-> <<>>],
    [path |-> <<"/", "u", "s", "e", "r", "s">>, method |-> <<"G", "E", "T">>, query |-> <<"S", "E", "L", "E", "C", "T", " ", "2">>, params |-> <<>>],
    [path |-> <<"/", "u", "s", "e", "r", "s", "/", ":", "i", "d">>, method |-> <<"G", "E", "T">>,
     query |-> <<"S", "E", "L", "E", "C", "T", " ", "*", " ", "F", "R", "O", "M", " ", "u", "s", "e", "r", "s", " ", "W", "H", "E", "R", "E", " ", "i", "d", " ", "=", " ", "$", "1">>, params |-> <<<<"i", "d">>>>],
    [path |-> <<"/", "i", "t", "e", "m", "s">>, method |-> <<"P", "O", "S", "T">>, query |-> <<"S", "E", "L", "E", "C", "T", " ", "1">>, params |-> <<>>],
    [path |-> <<"/", "d", "r", "o", "p">>, method |-> <<"G", "E", "T">>, query |-> <<"D", "R", "O", "P", " ", "T", "A", "B", "L", "E", " ", "u", "s", "e", "r", "s">>, params |-> <<>>],
    [path |-> <<"/", "b", "i", "n", "d">>, method |-> <<"G", "E", "T">>, query |-> <<"S", "E", "L", "E", "C", "T", " ", "$", "1">>, params |-> <<>>] }

\* the loop body of parseConfig for each candidate route, computed once
RouteChecked == [route \in RawRoutes |-> parseRoute(route.query, route.params)]

\* RouteConfigSchema, for the fields the candidates differ in
RouteSchemaOk(route) ==
    /\ Len(route.path) >= 1
    /\ route.method = <<"G", "E", "T">>
    /\ Len(route.query) >= 1

\* the refine of ConfigSchema: the loop over data.routes with the set paths
RECURSIVE NoDuplicateFrom(_, _, _)
NoDuplicateFrom(routes, i, paths) ==
    IF i > Len(routes) THEN TRUE
    ELSE LET routeKey == routes[i].method \o <<":">> \o routes[i].path
         IN  IF routeKey \in paths THEN FALSE
             ELSE NoDuplicateFrom(routes, i + 1, paths \cup {routeKey})

\* validateConfig without the refine
validateConfigNoRefine(routes) ==
    /\ Len(routes) >= 1
    /\ \A i \in DOMAIN routes : RouteSchemaOk(routes[i])

\* validateConfig: TRUE when ConfigSchema.parse returns, FALSE when it throws
validateConfig(routes) ==
    /\ Len(routes) >= 1
    /\ \A i \in DOMAIN routes : RouteSchemaOk(routes[i])
    /\ NoDuplicateFrom(routes, 1, {})

\* parseConfig assigning this.config before the routes are checked
parseConfigStoreFirst(routes, stored) ==
    IF ~validateConfig(routes) THEN [threw |-> TRUE, config |-> stored]
    ELSE [threw |-> \E i \in DOMAIN routes : RouteChecked[routes[i]] # "ok",
          config |-> <<routes>>]

\* parseConfig: whether it throws, and this.config afterwards
parseConfig(routes, stored) ==
    IF ~validateConfig(routes) THEN [threw |-> TRUE, config |-> stored]
    ELSE IF \E i \in DOMAIN routes : RouteChecked[routes[i]] # "ok"
    THEN [threw |-> TRUE, config |-> stored]
    ELSE [threw |-> FALSE, config |-> <<routes>>]

\* loadFromFile: readFileSync and JSON.parse may throw before parseConfig
loadFromFile(file, stored) ==
    IF ~file.readable THEN [threw |-> TRUE, config |-> stored]
    ELSE parseConfig(file.routes, stored)

MaxConfigRoutes == 2
MaxLoads == 2

RawFiles ==
    {[readable |-> FALSE, routes |-> <<>>]} \cup
    {[readable |-> TRUE, routes |-> r] :
        r \in UNION {[1..n -> RawRoutes] : n \in 0..MaxConfigRoutes}}

StartIdle ==
    /\ kRaw = <<>> /\ kConfig = <<>> /\ kHandler = <<>>
    /\ kStage = "idle" /\ kServed = {}

\* two routes of the configuration have the same (method, path) pair
HasDuplicate(routes) ==
    \E i, j \in DOMAIN routes :
        i # j /\ routes[i].method = routes[j].method /\ routes[i].path = routes[j].path

\* which checks each candidate route passes, computed once
RouteFacts ==
    [route \in RawRoutes |->
        [safe |-> isValidSqlQuery(route.query),
         bound |-> validateParameterBindings(route.query, route.params) = "ok"]]

\* what the loaded file is: kept in the history in place of its text
Describe(file) ==
    [readable |-> file.readable,
     someOk |-> \E i \in DOMAIN file.routes :
                    /\ RouteSchemaOk(file.routes[i])
                    /\ RouteFacts[file.routes[i]].safe /\ RouteFacts[file.routes[i]].bound,
     duplicate |-> HasDuplicate(file.routes),
     schemaOk |-> \A i \in DOMAIN file.routes : RouteSchemaOk(file.routes[i]),
     safe |-> \A i \in DOMAIN file.routes : RouteFacts[file.routes[i]].safe,
     bound |-> \A i \in DOMAIN file.routes : RouteFacts[file.routes[i]].bound]

\* the description of each candidate file, computed once
Described == [file \in RawFiles |-> Describe(file)]

\* new DbRouter(): no configuration, no request handler, nothing served
StartInit ==
    /\ kRaw = <<>> /\ kConfig = <<>> /\ kHandler = <<>>
    /\ kStage = "created" /\ kServed = {}

\* initialize(): loadFromFile, connect and ping, then new RequestHandler;
\* the database is reached only when the load did not throw
Initialize(file, dbOk) ==
    /\ kStage # "idle"
    /\ Len(kRaw) < MaxLoads
    /\ LET loaded == loadFromFile(file, kConfig)
           threw == loaded.threw \/ ~dbOk
           handler == IF threw THEN kHandler ELSE loaded.config
       IN  /\ loaded.threw => dbOk
           /\ kConfig' = loaded.config
           /\ kHandler' = handler
           /\ kRaw' = Append(kRaw, [file |-> Described[file], threw |-> threw,
                                    configKept |-> loaded.config = kConfig,
                                    handlerKept |-> handler = kHandler])
    /\ UNCHANGED <<kStage, kServed, validatorVars, parserVars, routeVars, cacheVars,
                   execVars, handlerVars, pageVars, stmtVars, shapeVars>>

\* start(): throws without a request handler, else Bun.serve
Start ==
    /\ kStage \in {"created", "refused"}
    /\ kStage' = IF kHandler = <<>> THEN "refused" ELSE "serving"
    /\ UNCHANGED <<kRaw, kConfig, kHandler, kServed, validatorVars, parserVars, routeVars,
                   cacheVars, execVars, handlerVars, pageVars, stmtVars, shapeVars>>

\* fetch: a request is handled by the current request handler
Serve ==
    /\ kStage = "serving"
    /\ kHandler # <<>>
    /\ kServed' = kServed \cup {kHandler[1]}
    /\ UNCHANGED <<kRaw, kConfig, kHandler, kStage, validatorVars, parserVars, routeVars,
                   cacheVars, execVars, handlerVars, pageVars, stmtVars, shapeVars>>

StartNext ==
    \/ \E file \in RawFiles, dbOk \in BOOLEAN : Initialize(file, dbOk)
    \/ Start
    \/ Serve

\* some route of a configuration fails schema validation, the SQL safety
\* check or the placeholder/parameter check
SomeRouteFails(routes) ==
    \E i \in DOMAIN routes :
        \/ ~RouteSchemaOk(routes[i])
        \/ ~isValidSqlQuery(routes[i].query)
        \/ validateParameterBindings(routes[i].query, routes[i].params) # "ok"

\* the same of a file in the history
Failing(f) == f.readable /\ (~f.schemaOk \/ ~f.safe \/ ~f.bound)

\* C19: loading a configuration in which two routes have the same
\* (method, path) pair fails, and in every configuration a request handler
\* holds or has handled a request with, the pairs are pairwise distinct.
C19_RouteUniqueness ==
    /\ \A i \in DOMAIN kRaw :
           (kRaw[i].file.readable /\ kRaw[i].file.duplicate) =>
               (kRaw[i].threw /\ kRaw[i].handlerKept)
    /\ \A routes \in kServed : ~HasDuplicate(routes)
    /\ kHandler # <<>> => ~HasDuplicate(kHandler[1])

\* a configuration whose only defect is a duplicate pair was refused, and
\* requests were served under another configuration of two routes
C19_Witness ==
    /\ \E i \in DOMAIN kRaw :
           /\ kRaw[i].file.readable /\ kRaw[i].file.duplicate
           /\ ~Failing(kRaw[i].file)
           /\ kRaw[i].threw
    /\ \E routes \in kServed : Len(routes) = 2

\* C20: if any route of the loaded configuration fails schema validation,
\* the SQL safety check or the placeholder/parameter check, the load
\* throws, the parser's stored configuration is unchanged (still none if
\* none was loaded before) and no request handler is created; start()
\* does not serve without a request handler; no request is handled under
\* a configuration that contains a failing route.
C20_AllOrNothing ==
    /\ \A i \in DOMAIN kRaw :
           Failing(kRaw[i].file) =>
               /\ kRaw[i].threw
               /\ kRaw[i].configKept
               /\ kRaw[i].handlerKept
    /\ kStage = "serving" => kHandler # <<>>
    /\ (kHandler = <<>> \/ kStage # "serving") => kServed = {}
    /\ \A routes \in kServed : ~SomeRouteFails(routes)
    /\ kHandler # <<>> => ~SomeRouteFails(kHandler[1])

\* a configuration in which one route passes every check and another fails
\* only the parameter check was loaded first: nothing is stored, no handler
\* exists, start() refused
C20_Witness ==
    /\ kRaw # <<>>
    /\ kRaw[1].file.readable /\ kRaw[1].file.someOk
    /\ kRaw[1].file.schemaOk /\ kRaw[1].file.safe /\ ~kRaw[1].file.bound
    /\ ~kRaw[1].file.duplicate
    /\ kRaw[1].threw
    /\ kConfig = <<>> /\ kHandler = <<>>
    /\ kStage = "refused"

\* after a successful start, a later load with an unsafe query left the
\* stored configuration and the handler as they were, and requests are served
C20_WitnessReload ==
    /\ Len(kRaw) = 2
    /\ ~kRaw[1].threw
    /\ kRaw[2].file.readable /\ kRaw[2].file.schemaOk /\ ~kRaw[2].file.safe
    /\ kRaw[2].threw /\ kRaw[2].configKept
    /\ kConfig # <<>>
    /\ kHandler = kConfig
    /\ kServed # {}

-----------------------------------------------------------------------------
InitValidator ==
    /\ ValidatorInit /\ ParserIdle /\ RouteIdle /\ CacheIdle /\ ExecIdle /\ HandlerIdle
    /\ PageIdle /\ StmtIdle /\ ShapeIdle /\ StartIdle

SpecValidator == InitValidator /\ [][Validate]_vars

InitParser ==
    /\ ParserInit /\ ValidatorIdle /\ RouteIdle /\ CacheIdle /\ ExecIdle /\ HandlerIdle
    /\ PageIdle /\ StmtIdle /\ ShapeIdle /\ StartIdle

SpecParser == InitParser /\ [][ParseConfig]_vars

InitRoutes ==
    /\ RouteInit /\ ValidatorIdle /\ ParserIdle /\ CacheIdle /\ ExecIdle /\ HandlerIdle
    /\ PageIdle /\ StmtIdle /\ ShapeIdle /\ StartIdle

RouteNext == FindRoute \/ ExtractParams

SpecRoutes == InitRoutes /\ [][RouteNext]_vars

InitCache ==
    /\ CacheInit /\ ValidatorIdle /\ ParserIdle /\ RouteIdle /\ ExecIdle /\ HandlerIdle
    /\ PageIdle /\ StmtIdle /\ ShapeIdle /\ StartIdle

SpecCache == InitCache /\ [][CacheNext]_vars

InitExec ==
    /\ ExecInit /\ ValidatorIdle /\ ParserIdle /\ RouteIdle /\ CacheIdle /\ HandlerIdle
    /\ PageIdle /\ StmtIdle /\ ShapeIdle /\ StartIdle

SpecExec == InitExec /\ [][ExecNext]_vars

Init ==
    /\ HandlerInit /\ CacheIdle /\ ValidatorIdle /\ ParserIdle /\ RouteIdle /\ ExecIdle
    /\ PageIdle /\ StmtIdle /\ ShapeIdle /\ StartIdle

Spec == Init /\ [][Next]_vars

SpecConcurrent == Init /\ [][NextConcurrent]_vars

SpecAuth == Init /\ [][NextAuth]_vars

InitPage ==
    /\ PageInit /\ ValidatorIdle /\ ParserIdle /\ RouteIdle /\ CacheIdle /\ ExecIdle
    /\ HandlerIdle /\ StmtIdle /\ ShapeIdle /\ StartIdle

SpecPagination == InitPage /\ [][PageNext]_vars
InitStatements ==
    /\ StmtInit /\ ValidatorIdle /\ ParserIdle /\ RouteIdle /\ CacheIdle /\ ExecIdle
    /\ HandlerIdle /\ PageIdle /\ ShapeIdle /\ StartIdle

SpecStatements == InitStatements /\ [][StmtNext]_vars
InitShape ==
    /\ ShapeInit /\ ValidatorIdle /\ ParserIdle /\ RouteIdle /\ CacheIdle /\ ExecIdle
    /\ HandlerIdle /\ PageIdle /\ StmtIdle /\ StartIdle

SpecShape == InitShape /\ [][Transform]_vars

InitWrapper ==
    /\ WrapperInit /\ ValidatorIdle /\ ParserIdle /\ RouteIdle /\ CacheIdle /\ ExecIdle
    /\ HandlerIdle /\ PageIdle /\ StmtIdle /\ StartIdle

SpecWrapper == InitWrapper /\ [][WrapNext]_vars
InitStartup ==
    /\ StartInit /\ ValidatorIdle /\ ParserIdle /\ RouteIdle /\ CacheIdle /\ ExecIdle
    /\ HandlerIdle /\ PageIdle /\ StmtIdle /\ ShapeIdle

SpecStartup == InitStartup /\ [][StartNext]_vars

=============================================================================
